---- MODULE Spec2Model ----
\* Durable execution core of dbos (src/dbos/core.py): the workflow engine,
\* the step engine, the transaction engine and recovery, as a state machine
\* over the system database, the application database and the worker threads.
EXTENDS Integers, Sequences, FiniteSets, TLC

\* ------------------------------------------------------------------ bounds
\* longest workflow body (number of operations it invokes)
MaxOps == 2
\* number of executions (start_workflow / recovery) of the workflow id
MaxThreads == 2
\* number of process crashes
MaxCrashes == 1
\* largest max_attempts a step decorator is given
MaxAttempts == 2
\* smallest max_attempts a step decorator is given (below 1 on purpose)
MinAttempts == 0
\* serialization failures the database raises within one transaction invocation
MaxSerFail == 2

VARIABLES
    \* program text: the operations of the workflow body, the step decorator's
    \* parameters
    body, retries_allowed, max_attempts,
    \* the step decorator's interval_seconds (in seconds) and backoff_rate
    interval_seconds, backoff_rate,
    \* the database: how many serialization failures it raises within one
    \* transaction invocation, and whether it may go on raising them forever
    serfail_bound, serfail_forever,
    \* how the workflow function is defined ("function", "class" for a class
    \* method, "instance" for a method of a configured instance) and the
    \* positional arguments the application calls it with
    func_type, call_args,
    \* what the user function of each operation of the body does when it is
    \* deterministic (<<>>: any call may return any value or raise)
    fnres,
    \* system database
    workflow_status, workflow_inputs, operation_outputs, status_buffer,
    \* application database
    transaction_outputs, app_writes,
    \* worker threads (context, position in the body, locals of the engines)
    th,
    \* executions started so far, crashes so far
    launches, crashes,
    \* the registry of the running deployment; what the last failed call of
    \* _execute_workflow_id raised
    registry, recovery,
    \* whether the workflow function declares required roles
    required_roles,
    \* the context of an application thread that calls the engine outside the
    \* workflow, the outcome of each such call, the calls the system database
    \* has received from send / recv / set_event / get_event
    caller_ctx, api, sysdb_calls,
    \* inputs of single-transaction workflows waiting for the flusher
    inputs_buffer,
    \* history: executions of each operation's user function, per key
    calls

\* the program text does not change
cfg == <<body, retries_allowed, max_attempts, fnres, func_type, call_args,
         required_roles, interval_seconds, backoff_rate, serfail_bound,
         serfail_forever>>

\* what the steps of a running workflow never touch
bare == <<caller_ctx, api, sysdb_calls>>

app == <<registry, recovery, bare>>

vars == <<body, retries_allowed, max_attempts, fnres, func_type, call_args,
          registry, recovery, required_roles, interval_seconds,
          backoff_rate, serfail_bound, serfail_forever, caller_ctx, api, sysdb_calls,
          inputs_buffer, workflow_status,
          workflow_inputs,
          operation_outputs, status_buffer, transaction_outputs, app_writes,
          th, launches, crashes, calls>>

\* ------------------------------------------------------------------ values
\* Python None, stored as a null column
None == <<"None">>

\* utils.serialize: a pickled value is never None, also when the value is None
serialize(x) == <<"pickle">> \o x

\* utils.deserialize
deserialize(s) == Tail(s)

\* values a user function returns (None among them)
Vals == {<<"a">>, None}

\* exceptions
UserError == <<"UserError">>
DBOSMaxStepRetriesExceeded == <<"DBOSMaxStepRetriesExceeded">>
DBOSWorkflowConflictIDError == <<"DBOSWorkflowConflictIDError">>
DBOSRecoveryError(msg) == <<"DBOSRecoveryError", msg>>
DBOSWorkflowFunctionNotFoundError(msg) ==
    <<"DBOSWorkflowFunctionNotFoundError", msg>>
BothNoneError == <<"Exception", "Output and error are both None">>
SerializationFailure == <<"DBAPIError", "40001">>
OtherDBError == <<"DBAPIError", "23505">>

IsDBAPIError(e) == Len(e) > 0 /\ e[1] = "DBAPIError"

\* str(int) for the function ids the model reaches
str(n) == <<<<"0", "1", "2", "3", "4", "5", "6", "7", "8", "9">>[n + 1]>>

\* the workflow id the application starts and recovers (SetWorkflowID)
RootId == <<"w">>

Threads == 1..MaxThreads

Ok(v) == [kind |-> "ok", val |-> v]
Err(e) == [kind |-> "err", val |-> e]
NoRet == [kind |-> "none", val |-> None]

\* f with key k set to v (insert or overwrite)
Put(f, k, v) == [x \in DOMAIN f \cup {k} |-> IF x = k THEN v ELSE f[x]]

\* ---------------------------------------------------------- system database
Terminal == {"SUCCESS", "ERROR"}

\* variant of update_workflow_status: an upsert that overwrites a terminal row
update_workflow_status_overwrite(db, status, in_recovery) ==
    Put(db, status.workflow_uuid, status)

\* SystemDatabase.update_workflow_status: upsert of the status row; a row that
\* is SUCCESS or ERROR is write-once; in recovery mode the counter is bumped
update_workflow_status(db, status, in_recovery) ==
    LET id == status.workflow_uuid IN
    IF id \notin DOMAIN db
    THEN Put(db, id, [status EXCEPT !.recovery_attempts = 0])
    ELSE LET old == db[id]
             ra == IF in_recovery THEN old.recovery_attempts + 1
                   ELSE old.recovery_attempts
         IN IF old.status \in Terminal
            THEN Put(db, id, [old EXCEPT !.recovery_attempts = ra])
            ELSE Put(db, id, [status EXCEPT !.recovery_attempts = ra])

\* SystemDatabase.update_workflow_inputs: written at most once per id
update_workflow_inputs(db, id, inputs) ==
    IF id \in DOMAIN db THEN db ELSE Put(db, id, inputs)

\* SystemDatabase.check_operation_execution: the row of the key, or None
check_operation_execution(db, id, fid) ==
    IF <<id, fid>> \in DOMAIN db THEN <<db[<<id, fid>>]>> ELSE <<>>

\* ApplicationDatabase.check_transaction_execution: the row of the key, or None
check_transaction_execution(db, id, fid) ==
    IF <<id, fid>> \in DOMAIN db THEN <<db[<<id, fid>>]>> ELSE <<>>

\* ------------------------------------------------------------------ threads
IdleThread ==
    [pc |-> "idle", workflow_id |-> <<>>, function_id |-> 0, idx |-> 0,
     acc |-> <<>>, recorded |-> <<>>, attempt |-> 0, error |-> None,
     output |-> None, rec_output |-> None, has_recorded_error |-> FALSE,
     serfail |-> 0, chkfail |-> 0, ran |-> 0, wrote |-> FALSE, ret |-> NoRet,
     id_assigned_for_next_workflow |-> <<>>, handle |-> <<>>,
     result |-> NoRet, args |-> <<>>, inputs |-> <<>>, in_recovery |-> FALSE,
     curr_step_function_id |-> 0, scopes |-> <<>>, assumed_role |-> None,
     released |-> <<>>, local_interval_seconds |-> 0, sleeps |-> <<>>,
     retry_wait_seconds |-> 0, slept |-> 0, raised |-> None, lap |-> 0]

\* the receivers of the workflow function: the configured instance, the class
Instance == "inst"
Class == "cls"

\* registrations.get_dbos_class_name: the class of the first argument of a
\* method, None for a plain function
get_dbos_class_name(ft, args) ==
    IF ft \in {"class", "instance"} /\ Len(args) > 0 THEN <<"C">> ELSE None

\* registrations.get_config_name: the config name of the instance
get_config_name(ft, args) ==
    IF ft = "instance" /\ Len(args) > 0 THEN <<"cfg">> ELSE None

\* the workflow ids of the temp workflows of a step and of a transaction
\* called outside any workflow
TempStepId == <<"ts">>
TempTxId == <<"tt">>

\* every workflow taken for a single-transaction temp workflow
get_temp_workflow_type_transaction(id) == <<"transaction">>

\* registrations.get_temp_workflow_type of the function that runs under id
\* (set at lines 531 and 646)
get_temp_workflow_type(id) ==
    IF id = TempStepId THEN <<"step">>
    ELSE IF id = TempTxId THEN <<"transaction">> ELSE None

\* the kind of the function that runs under a workflow id: the workflow of
\* the application, or a child function or temp workflow (plain functions)
FuncType(id) == IF id = RootId THEN func_type ELSE "function"

\* the status record _init_workflow composes (lines 134-150), for a function
\* entered with arguments gin_args
Status(id, gin_args) ==
    [workflow_uuid |-> id, status |-> "PENDING", output |-> None,
     error |-> None, recovery_attempts |-> 0,
     name |-> IF id = RootId THEN <<"wf">>
              ELSE IF id = TempStepId THEN <<"<temp>.step">>
              ELSE IF id = TempTxId THEN <<"<temp>.tx">> ELSE <<"child">>,
     class_name |-> get_dbos_class_name(FuncType(id), gin_args),
     config_name |-> get_config_name(FuncType(id), gin_args),
     assumed_role |-> None]

\* the status record of an execution that is under way: a method always has
\* its receiver
NewStatus(id) == Status(id, <<"receiver">>)

\* the status record thread t got from _init_workflow
StatusOf(t) ==
    [NewStatus(th[t].workflow_id) EXCEPT !.assumed_role = th[t].assumed_role]

\* roles.check_required_roles: the role to assume, None for a function that
\* declares no required roles (temp workflows and child functions here)
check_required_roles(id) ==
    IF required_roles /\ id = RootId THEN <<"role">> ELSE None

\* the scopes an execution runs in: the with statement of the wrapper called
\* on the caller's thread (line 304), those of _execute_workflow_wthread
\* (lines 212-213)
Scopes(sync) ==
    IF sync THEN <<"EnterDBOSWorkflow", "DBOSAssumeRole">>
    ELSE <<"DBOSContextSwap", "EnterDBOSWorkflow">>

\* ctx.assumed_role inside the scopes: DBOSAssumeRole(rr) sets it to rr
AssumedRole(sync, id) ==
    IF "DBOSAssumeRole" \in {Scopes(sync)[i] : i \in DOMAIN Scopes(sync)}
    THEN check_required_roles(id) ELSE None

Reverse(q) == [i \in 1..Len(q) |-> q[Len(q) + 1 - i]]

\* _init_workflow, lines 155-157: the inputs that are stored
StoredInputs(class_name, args) ==
    IF class_name # None THEN SubSeq(args, 2, Len(args)) ELSE args

\* get_local_dbos_context() when the thread has no context
NoContext == [kind |-> "none", workflow_id |-> <<>>, function_id |-> 0]

\* every function, class and instance is registered
AllRegistered == [workflow |-> TRUE, class |-> TRUE, instance |-> TRUE]

\* ------------------------------------------------------------ initial state
Bodies == UNION {[1..n -> {"step", "tx"}] : n \in 1..MaxOps}

Init ==
    /\ body \in Bodies
    /\ retries_allowed \in BOOLEAN
    /\ max_attempts \in MinAttempts..MaxAttempts
    /\ (\A i \in DOMAIN body : body[i] # "step")
          => (retries_allowed = FALSE /\ max_attempts = 1)
    /\ fnres = <<>>
    /\ func_type = "function"
    /\ call_args = <<"x">>
    /\ required_roles = FALSE
    /\ interval_seconds = 1
    /\ backoff_rate = 2
    /\ serfail_bound = MaxSerFail
    /\ serfail_forever = FALSE
    /\ registry = AllRegistered
    /\ recovery = NoRet
    /\ caller_ctx = NoContext
    /\ api = <<>>
    /\ sysdb_calls = {}
    /\ inputs_buffer = <<>>
    /\ workflow_status = <<>>
    /\ workflow_inputs = <<>>
    /\ operation_outputs = <<>>
    /\ status_buffer = <<>>
    /\ transaction_outputs = <<>>
    /\ app_writes = <<>>
    /\ th = [t \in Threads |-> IdleThread]
    /\ launches = 0
    /\ crashes = 0
    /\ calls = <<>>

\* ------------------------------------------------------------ thread steps
\* the operations of the workflow function that runs under id: the workflow
\* the application starts, a temp workflow (temp_wf, lines 525-526 and
\* 641-642, calls the wrapper of its step or transaction), or the child
\* workflow function (which calls nothing)
BodyOf(id) ==
    IF id = RootId THEN body
    ELSE IF id = TempStepId THEN <<"step">>
    ELSE IF id = TempTxId THEN <<"tx">> ELSE <<>>

Code(t) == BodyOf(th[t].workflow_id)

\* the first free worker of the pool
FreeThread == CHOOSE i \in DOMAIN th :
                  th[i].pc = "idle" /\ \A j \in 1..(i - 1) : th[j].pc # "idle"

Key(t) == <<th[t].workflow_id, th[t].function_id>>

Bump(f, k) == Put(f, k, IF k \in DOMAIN f THEN f[k] + 1 ELSE 1)

\* a thread whose call of a step or transaction ends with outcome r
Returned(c, r) == [c EXCEPT !.pc = "ret", !.ret = r]

\* ------------------------------------------------------------- step engine
\* invoke_step, lines 569-576: the outcome replayed from a recorded row
StepReplay(row) ==
    IF row.error # None THEN Err(deserialize(row.error))
    ELSE IF row.output # None THEN Ok(deserialize(row.output))
    ELSE Err(BothNoneError)

\* invoke_step, line 579
local_max_attempts == IF retries_allowed THEN max_attempts ELSE 1

\* variant of StepErrorAfter: the last attempt's error is replaced whether or
\* not retries are allowed
StepErrorAfterAlways(a, e) ==
    IF a = local_max_attempts THEN DBOSMaxStepRetriesExceeded ELSE e

\* invoke_step, lines 588-602: the error kept after attempt number a raised e
StepErrorAfter(a, e) ==
    IF retries_allowed /\ a = local_max_attempts
    THEN DBOSMaxStepRetriesExceeded ELSE e

\* invoke_step, line 580
max_retry_interval_seconds == 3600

Min(a, b) == IF a <= b THEN a ELSE b

\* variant of StepSleep: the step sleeps after every failed attempt
StepSleepEvery(c, last) ==
    IF retries_allowed
    THEN [c EXCEPT !.sleeps = Append(@, c.local_interval_seconds),
                   !.local_interval_seconds =
                       Min(@ * backoff_rate, max_retry_interval_seconds)]
    ELSE c

\* invoke_step, lines 590 and 601-608: time.sleep between two attempts, and
\* the interval of the next sleep
StepSleep(c, last) ==
    IF retries_allowed /\ ~last
    THEN [c EXCEPT !.sleeps = Append(@, c.local_interval_seconds),
                   !.local_interval_seconds =
                       Min(@ * backoff_rate, max_retry_interval_seconds)]
    ELSE c

\* invoke_step, lines 610-612: the row handed to record_operation_result
StepOutputRow(c) ==
    [output |-> c.rec_output,
     error |-> IF c.error # None THEN serialize(c.error) ELSE None]

\* invoke_step, lines 615-617
StepOutcome(c) == IF c.error # None THEN Err(c.error) ELSE Ok(c.output)

\* what a call of the user function of the thread's current operation may do
UserResults(t) ==
    IF fnres = <<>> THEN {Ok(v) : v \in Vals} \cup {Err(UserError)}
    ELSE {fnres[th[t].idx + 1]}

\* the workflow body calls its next operation, a step: wrapper (lines 628-635),
\* EnterDBOSStep (function_id + 1) and the OAOO check (lines 559-578)
CallStep(t) ==
    /\ th[t].pc = "body"
    /\ th[t].idx < Len(Code(t))
    /\ Code(t)[th[t].idx + 1] = "step"
    /\ LET fid == th[t].function_id + 1
           rec == check_operation_execution(operation_outputs,
                                            th[t].workflow_id, fid)
           c == [th[t] EXCEPT !.function_id = fid, !.recorded = rec,
                              !.output = None, !.rec_output = None,
                              !.error = None, !.attempt = 1,
                              !.local_interval_seconds = interval_seconds,
                              !.sleeps = <<>>,
                              !.ran = 0, !.wrote = FALSE]
       IN th' = [th EXCEPT ![t] =
                    IF rec # <<>> THEN Returned(c, StepReplay(rec[1]))
                    ELSE IF local_max_attempts >= 1
                         THEN [c EXCEPT !.pc = "step_attempt"]
                         ELSE [c EXCEPT !.pc = "step_record"]]
    /\ UNCHANGED <<cfg, app, inputs_buffer, workflow_status,
                   workflow_inputs, operation_outputs, status_buffer,
                   transaction_outputs, app_writes, launches, crashes, calls>>

\* one pass of the retry loop (lines 582-608): the user function runs
StepAttempt(t) ==
    /\ th[t].pc = "step_attempt"
    /\ \E r \in UserResults(t) :
        LET c == [th[t] EXCEPT !.ran = @ + 1]
            last == th[t].attempt >= local_max_attempts
        IN th' = [th EXCEPT ![t] =
                    IF r.kind = "ok"
                    THEN [c EXCEPT !.output = r.val,
                                   !.rec_output = serialize(r.val),
                                   !.error = None, !.pc = "step_record"]
                    ELSE [StepSleep(c, last) EXCEPT
                              !.error = StepErrorAfter(c.attempt, r.val),
                              !.attempt = @ + 1,
                              !.pc = IF last THEN "step_record"
                                     ELSE "step_attempt"]]
    /\ calls' = Bump(calls, Key(t))
    /\ UNCHANGED <<cfg, app, inputs_buffer, workflow_status,
                   workflow_inputs, operation_outputs, status_buffer,
                   transaction_outputs, app_writes, launches, crashes>>

\* variant of StepRecord: record_operation_result as an upsert
StepRecordUpsert(t) ==
    /\ th[t].pc = "step_record"
    /\ operation_outputs' =
           Put(operation_outputs, Key(t), StepOutputRow(th[t]))
    /\ th' = [th EXCEPT ![t] =
                 Returned([@ EXCEPT !.wrote = TRUE], StepOutcome(@))]
    /\ UNCHANGED <<cfg, app, inputs_buffer, workflow_status,
                   workflow_inputs, status_buffer, transaction_outputs,
                   app_writes, launches, crashes, calls>>

\* lines 610-617: record_operation_result (a second row for the key is
\* refused with DBOSWorkflowConflictIDError), then return or raise
StepRecord(t) ==
    /\ th[t].pc = "step_record"
    /\ IF Key(t) \in DOMAIN operation_outputs
       THEN /\ th' = [th EXCEPT ![t] =
                         Returned(@, Err(DBOSWorkflowConflictIDError))]
            /\ UNCHANGED operation_outputs
       ELSE /\ operation_outputs' =
                   Put(operation_outputs, Key(t), StepOutputRow(th[t]))
            /\ th' = [th EXCEPT ![t] =
                         Returned([@ EXCEPT !.wrote = TRUE], StepOutcome(@))]
    /\ UNCHANGED <<cfg, app, inputs_buffer, workflow_status,
                   workflow_inputs, status_buffer, transaction_outputs,
                   app_writes, launches, crashes, calls>>

\* ------------------------------------------------------ transaction engine
\* invoke_tx, lines 459-473: the outcome replayed from a recorded row
TxReplay(row) ==
    IF row.error # None THEN Err(deserialize(row.error))
    ELSE IF row.output # None THEN Ok(deserialize(row.output))
    ELSE Err(BothNoneError)

\* variant of TxHandler: a serialization failure is re-raised like any other
\* database error
TxHandlerNoRetry(e, has_recorded_error) ==
    IF IsDBAPIError(e) THEN "raise"
    ELSE IF has_recorded_error THEN "raise" ELSE "record"

\* variant of TxHandler: every database error is retried
TxHandlerRetryAny(e, has_recorded_error) ==
    IF IsDBAPIError(e) THEN "retry"
    ELSE IF has_recorded_error THEN "raise" ELSE "record"

\* invoke_tx, lines 483-502: what the handlers do with exception e raised in
\* the transaction block (the block has rolled back): sleep and run the loop
\* again, re-raise, or record the error first
TxHandler(e, has_recorded_error) ==
    IF IsDBAPIError(e)
    THEN IF e[2] = "40001" THEN "retry" ELSE "raise"
    ELSE IF has_recorded_error THEN "raise" ELSE "record"

\* variant of TxRaised: the retry enters the transaction scope again, which
\* takes a new function_id
TxRaisedReenter(c, e, has_recorded_error) ==
    IF IsDBAPIError(e) /\ e[2] = "40001"
    THEN [c EXCEPT !.pc = "tx_begin", !.serfail = @ + 1,
                   !.function_id = @ + 1]
    ELSE IF IsDBAPIError(e) \/ has_recorded_error
    THEN [c EXCEPT !.pc = "ret", !.ret = Err(e)]
    ELSE [c EXCEPT !.pc = "tx_record_error", !.error = e]

\* the count of serialization failures plus one; where the database may fail
\* forever the count stops at serfail_bound
Count(n) == IF serfail_forever /\ n >= serfail_bound THEN n ELSE n + 1

\* a history counter of the transaction loop plus one; where the database may
\* fail forever it stops at MaxSerFail
CountRun(n) == IF serfail_forever /\ n >= MaxSerFail THEN n ELSE n + 1

\* whether the database may answer with one more serialization failure
MayFail(c) == serfail_forever \/ c.serfail < serfail_bound

\* waits are counted in units of 2^-19 ms, in which every wait below the cap
\* is a whole number
Millisecond == 2 ^ 19

\* invoke_tx, lines 438 and 440
initial_retry_wait == Millisecond
max_retry_wait == 2000 * Millisecond

\* variant of NextRetryWait: no cap on the wait
NextRetryWaitNoCap(w) == w + w \div 2

\* invoke_tx, lines 491-494: the wait times backoff_factor = 1.5, capped
NextRetryWait(w) == Min(w + w \div 2, max_retry_wait)

\* the thread after exception e left the transaction block; a retry sleeps
\* retry_wait_seconds first (lines 490-495)
TxRaised(c, e, has_recorded_error) ==
    LET h == TxHandler(e, has_recorded_error)
        d == [c EXCEPT !.raised = e]
    IN
    IF h = "retry"
    THEN [d EXCEPT !.pc = "tx_begin", !.serfail = Count(@),
                   !.lap = 1 - @,
                   !.slept = c.retry_wait_seconds,
                   !.retry_wait_seconds = NextRetryWait(@)]
    ELSE IF h = "raise"
    THEN Returned(d, Err(e))
    ELSE [d EXCEPT !.pc = "tx_record_error", !.error = e]

\* the workflow body calls its next operation, a transaction: wrapper (lines
\* 513-519), EnterDBOSTransaction (function_id + 1), lines 428-440
CallTx(t) ==
    /\ th[t].pc = "body"
    /\ th[t].idx < Len(Code(t))
    /\ Code(t)[th[t].idx + 1] = "tx"
    /\ th' = [th EXCEPT ![t] =
                 [@ EXCEPT !.function_id = @ + 1, !.recorded = <<>>,
                           !.output = None, !.rec_output = None,
                           !.error = None, !.serfail = 0, !.chkfail = 0,
                           !.ran = 0,
                           !.retry_wait_seconds = initial_retry_wait,
                           !.slept = 0, !.raised = None,
                           !.wrote = FALSE, !.pc = "tx_begin"]]
    /\ UNCHANGED <<cfg, app, inputs_buffer, workflow_status,
                   workflow_inputs, operation_outputs, status_buffer,
                   transaction_outputs, app_writes, launches, crashes, calls>>

\* top of the loop (lines 441-473): begin, set the isolation level, OAOO check;
\* the database may answer any statement with a serialization failure
TxBegin(t) ==
    /\ th[t].pc = "tx_begin"
    /\ \E fail \in BOOLEAN :
        /\ fail => MayFail(th[t])
        /\ LET rec == check_transaction_execution(transaction_outputs,
                          th[t].workflow_id, th[t].function_id)
               c == [th[t] EXCEPT !.has_recorded_error = FALSE,
                                  !.raised = None]
           IN th' = [th EXCEPT ![t] =
                IF fail
                THEN TxRaised([c EXCEPT !.chkfail = CountRun(@)],
                              SerializationFailure, FALSE)
                ELSE IF rec = <<>> THEN [c EXCEPT !.pc = "tx_body"]
                ELSE LET r == TxReplay(rec[1])
                         d == [c EXCEPT !.recorded = rec]
                     IN IF r.kind = "ok" THEN Returned(d, r)
                        ELSE TxRaised(
                               [d EXCEPT !.has_recorded_error =
                                             rec[1].error # None],
                               r.val, rec[1].error # None)]
    /\ UNCHANGED <<cfg, app, inputs_buffer, workflow_status,
                   workflow_inputs, operation_outputs, status_buffer,
                   transaction_outputs, app_writes, launches, crashes, calls>>

\* the user function, or one of its statements failing in the database
TxResults(t) ==
    UserResults(t) \cup {Err(SerializationFailure)}
        \cup (IF fnres = <<>> THEN {Err(OtherDBError)} ELSE {})

\* line 474-475: the user function runs inside the transaction block
TxBody(t) ==
    /\ th[t].pc = "tx_body"
    /\ \E r \in TxResults(t) :
        /\ r = Err(SerializationFailure) => MayFail(th[t])
        /\ LET c == [th[t] EXCEPT !.ran = CountRun(@)] IN
           th' = [th EXCEPT ![t] =
                IF r.kind = "ok"
                THEN [c EXCEPT !.output = r.val,
                               !.rec_output = serialize(r.val),
                               !.pc = "tx_commit"]
                ELSE TxRaised(c, r.val, FALSE)]
    /\ calls' = Put(calls, Key(t),
                  IF Key(t) \in DOMAIN calls THEN CountRun(calls[Key(t)]) ELSE 1)
    /\ UNCHANGED <<cfg, app, inputs_buffer, workflow_status,
                   workflow_inputs, operation_outputs, status_buffer,
                   transaction_outputs, app_writes, launches, crashes>>

\* variant of TxCommit: the user function's writes are committed on their own,
\* before the result row is inserted
TxCommitNotAtomic(t) ==
    /\ th[t].pc = "tx_commit"
    /\ app_writes' = Bump(app_writes, Key(t))
    /\ IF Key(t) \notin DOMAIN transaction_outputs
       THEN /\ transaction_outputs' =
                   Put(transaction_outputs, Key(t),
                       [output |-> th[t].rec_output, error |-> None])
            /\ th' = [th EXCEPT ![t] =
                         [@ EXCEPT !.pc = "ret", !.wrote = TRUE,
                                   !.ret = Ok(th[t].output)]]
       ELSE /\ th' = [th EXCEPT ![t] =
                         [@ EXCEPT !.pc = "ret", !.ret = Err(OtherDBError)]]
            /\ UNCHANGED transaction_outputs
    /\ UNCHANGED <<cfg, app, inputs_buffer, workflow_status, workflow_inputs, operation_outputs,
                   status_buffer, launches, crashes, calls>>

\* lines 476-482: record_transaction_output and the commit at the end of the
\* block: the user function's writes and the result row become durable
\* together, or the database refuses: a serialization failure, or a second row
\* for the key, which record_transaction_output reports as
\* DBOSWorkflowConflictIDError like every write of a recorded result
TxCommit(t) ==
    /\ th[t].pc = "tx_commit"
    /\ \E res \in {"ok", "40001", "other"} :
        /\ res = "ok" => Key(t) \notin DOMAIN transaction_outputs
        /\ res = "40001" => MayFail(th[t])
        /\ res = "other" => Key(t) \in DOMAIN transaction_outputs
        /\ IF res = "ok"
           THEN /\ transaction_outputs' =
                       Put(transaction_outputs, Key(t),
                           [output |-> th[t].rec_output, error |-> None])
                /\ app_writes' = Bump(app_writes, Key(t))
                /\ th' = [th EXCEPT ![t] =
                             Returned([@ EXCEPT !.wrote = TRUE], Ok(@.output))]
           ELSE /\ th' = [th EXCEPT ![t] =
                             TxRaised(@, IF res = "40001"
                                         THEN SerializationFailure
                                         ELSE DBOSWorkflowConflictIDError,
                                      FALSE)]
                /\ UNCHANGED <<transaction_outputs, app_writes>>
    /\ UNCHANGED <<cfg, app, inputs_buffer, workflow_status,
                   workflow_inputs, operation_outputs, status_buffer,
                   launches, crashes, calls>>

\* lines 499-502: record_transaction_error writes the error row in a
\* transaction of its own (a second row for the key is refused with
\* DBOSWorkflowConflictIDError), then the error is re-raised
TxRecordError(t) ==
    /\ th[t].pc = "tx_record_error"
    /\ IF Key(t) \in DOMAIN transaction_outputs
       THEN /\ th' = [th EXCEPT ![t] =
                         Returned(@, Err(DBOSWorkflowConflictIDError))]
            /\ UNCHANGED transaction_outputs
       ELSE /\ transaction_outputs' =
                   Put(transaction_outputs, Key(t),
                       [output |-> None, error |-> serialize(th[t].error)])
            /\ th' = [th EXCEPT ![t] =
                         Returned([@ EXCEPT !.wrote = TRUE], Err(@.error))]
    /\ UNCHANGED <<cfg, app, inputs_buffer, workflow_status,
                   workflow_inputs, operation_outputs, status_buffer,
                   app_writes, launches, crashes, calls>>

\* --------------------------------------------------------- workflow engine
\* what the application binds the workflow function to when it calls it
Receiver(ft) ==
    IF ft = "instance" THEN <<Instance>>
    ELSE IF ft = "class" THEN <<Class>> ELSE <<>>

\* _start_workflow called outside any workflow (lines 337-391) for workflow id
\* id, with func bound to fself (<<>> when it is not bound) and positional
\* arguments args: _init_workflow composes the status and writes the PENDING
\* status row (lines 134-162), and the caller's thread goes on to the inputs
\* row; for a single-transaction temp workflow it only buffers the inputs
\* (lines 164-166) and the body is next
Launch(sync, id, in_recovery, fself, args) ==
    LET gin_args == IF Len(fself) > 0 THEN fself ELSE args
        status == [Status(id, gin_args) EXCEPT
                       !.assumed_role = AssumedRole(sync, id)]
        temp_wf_type == get_temp_workflow_type(id)
        inputs == StoredInputs(status.class_name, args)
    IN
    /\ launches < MaxThreads
    /\ launches' = launches + 1
    /\ IF temp_wf_type # <<"transaction">>
       THEN /\ workflow_status' =
                  update_workflow_status(workflow_status, status, in_recovery)
            /\ UNCHANGED inputs_buffer
       ELSE /\ inputs_buffer' = Put(inputs_buffer, id, serialize(inputs))
            /\ UNCHANGED workflow_status
    /\ th' = [th EXCEPT ![FreeThread] =
                 [IdleThread EXCEPT
                      !.pc = IF temp_wf_type # <<"transaction">>
                             THEN "init" ELSE "body",
                      !.workflow_id = id,
                      !.in_recovery = in_recovery,
                      !.scopes = Scopes(sync),
                      !.assumed_role = status.assumed_role,
                      !.args = fself \o args,
                      !.inputs = inputs]]
    /\ UNCHANGED <<cfg, app, workflow_inputs, operation_outputs,
                   status_buffer, transaction_outputs, app_writes, crashes,
                   calls>>

\* _init_workflow, line 163, and _start_workflow, lines 393-410: the inputs
\* row is written, then the execution is submitted to a worker thread
InitInputs(t) ==
    /\ th[t].pc = "init"
    /\ workflow_inputs' =
           update_workflow_inputs(workflow_inputs, th[t].workflow_id,
                                  serialize(th[t].inputs))
    /\ th' = [th EXCEPT ![t] = [@ EXCEPT !.pc = "body"]]
    /\ UNCHANGED <<cfg, app, inputs_buffer, workflow_status, operation_outputs,
                   status_buffer, transaction_outputs, app_writes, launches,
                   crashes, calls>>

\* the application starts the workflow under SetWorkflowID(RootId), with the
\* function bound to its receiver
StartWorkflow == Launch(FALSE, RootId, FALSE, Receiver(func_type), call_args)

\* the application calls the workflow function itself under
\* SetWorkflowID(RootId): _workflow_wrapper.wrapper (lines 284-316), whose args
\* begin with the receiver of a method
CallWorkflow ==
    Launch(TRUE, RootId, FALSE, <<>>, Receiver(func_type) \o call_args)

\* DBOSContextEnsure: the context of the calling thread, a new one if it has
\* none
DBOSContextEnsure ==
    [workflow_id |-> <<>>, function_id |-> 0,
     id_assigned_for_next_workflow |-> <<>>, in_recovery |-> FALSE]

\* _execute_workflow_id, lines 235-238 and the SetWorkflowID scopes of lines
\* 249, 265 and 273: the context start_workflow is called in.  The request is
\* set; no line assigns in_recovery
RecoveryContext(id) ==
    [DBOSContextEnsure EXCEPT !.id_assigned_for_next_workflow = id]

\* variant of RecoveryOutcome: a missing instance is not looked at
RecoveryOutcomeAnyInstance(id) ==
    IF id \notin DOMAIN workflow_status
    THEN Err(DBOSRecoveryError("Workflow status not found"))
    ELSE IF id \notin DOMAIN workflow_inputs
    THEN Err(DBOSRecoveryError("Workflow inputs not found"))
    ELSE IF ~registry.workflow
    THEN Err(DBOSWorkflowFunctionNotFoundError("Workflow function not found"))
    ELSE IF workflow_status[id].config_name # None
    THEN Ok(<<Instance>>)
    ELSE IF workflow_status[id].class_name # None
    THEN IF ~registry.class
         THEN Err(DBOSWorkflowFunctionNotFoundError("class not registered"))
         ELSE Ok(<<Class>>)
    ELSE Ok(<<>>)

\* _execute_workflow_id, lines 224-264: the exception it raises, or the
\* receiver it prepends to the stored arguments
RecoveryOutcome(id) ==
    IF id \notin DOMAIN workflow_status
    THEN Err(DBOSRecoveryError("Workflow status not found"))
    ELSE IF id \notin DOMAIN workflow_inputs
    THEN Err(DBOSRecoveryError("Workflow inputs not found"))
    ELSE IF ~registry.workflow
    THEN Err(DBOSWorkflowFunctionNotFoundError("Workflow function not found"))
    ELSE IF workflow_status[id].config_name # None
    THEN IF ~registry.instance
         THEN Err(DBOSWorkflowFunctionNotFoundError("instance not registered"))
         ELSE Ok(<<Instance>>)
    ELSE IF workflow_status[id].class_name # None
    THEN IF ~registry.class
         THEN Err(DBOSWorkflowFunctionNotFoundError("class not registered"))
         ELSE Ok(<<Class>>)
    ELSE Ok(<<>>)

\* --------------------------------------------------------- child workflows
\* the id the body sets with SetWorkflowID before one of its start_workflow
ChildExplicitId == <<"c">>

\* what uuid4 gives when no id is reserved
FreshId == <<"uuid">>

\* variant of StartWorkflowCaller: the child id is derived before the bump
StartWorkflowCallerStale(ctx) ==
    [ctx EXCEPT !.function_id = @ + 1,
                !.id_assigned_for_next_workflow =
                    IF Len(@) = 0
                    THEN ctx.workflow_id \o <<"-">> \o str(ctx.function_id)
                    ELSE @]

\* _start_workflow, lines 363-369, for a caller inside a workflow: the caller's
\* function_id is bumped and, when no id is reserved, the child's is derived
StartWorkflowCaller(ctx) ==
    LET fid == ctx.function_id + 1 IN
    [ctx EXCEPT !.function_id = fid,
                !.id_assigned_for_next_workflow =
                    IF Len(@) = 0
                    THEN ctx.workflow_id \o <<"-">> \o str(fid)
                    ELSE @]

\* DBOSContext.create_child: a context with function_id 0 that takes over the
\* id reserved for the next workflow
create_child(ctx) ==
    [workflow_id |-> <<>>, function_id |-> 0,
     parent_workflow_id |-> ctx.workflow_id,
     in_recovery |-> ctx.in_recovery,
     id_assigned_for_next_workflow |-> ctx.id_assigned_for_next_workflow]

\* DBOSContext.assign_workflow_id: the reserved id, or a fresh one
assign_workflow_id(ctx) ==
    IF Len(ctx.id_assigned_for_next_workflow) > 0
    THEN ctx.id_assigned_for_next_workflow
    ELSE FreshId

\* _start_workflow, lines 371-373: the id of the workflow being started
NewWorkflowId(cur_ctx) == assign_workflow_id(create_child(cur_ctx))

\* _execute_workflow_id (lines 223-275) when nothing is missing: start_workflow
\* with the registered function, the receiver and the stored arguments
Recover ==
    LET o == RecoveryOutcome(RootId)
        new_wf_ctx == create_child(RecoveryContext(RootId))
    IN /\ o.kind = "ok"
       /\ Launch(FALSE, assign_workflow_id(new_wf_ctx),
                 new_wf_ctx.in_recovery, <<>>,
                 o.val \o deserialize(workflow_inputs[RootId]))

\* _execute_workflow_id when something is missing: it raises before line 249
RecoverFails ==
    LET o == RecoveryOutcome(RootId) IN
    /\ o.kind = "err"
    /\ recovery' = o
    /\ UNCHANGED <<cfg, registry, bare, inputs_buffer, workflow_status,
                   workflow_inputs,
                   operation_outputs, status_buffer, transaction_outputs,
                   app_writes, th, launches, crashes, calls>>

\* the process is started again after a crash, with the registrations of the
\* code that is deployed then
Redeploy ==
    /\ crashes > 0
    /\ \A t \in DOMAIN th : th[t].pc \in {"idle", "dead"}
    /\ registry' \in [workflow : BOOLEAN, class : BOOLEAN, instance : BOOLEAN]
    /\ registry' # registry
    /\ UNCHANGED <<cfg, recovery, bare, inputs_buffer, workflow_status,
                   workflow_inputs,
                   operation_outputs, status_buffer, transaction_outputs,
                   app_writes, th, launches, crashes, calls>>

\* the body calls start_workflow on the child workflow function, directly or
\* within SetWorkflowID(ChildExplicitId): lines 362-410
StartChild(t) ==
    /\ th[t].pc = "body"
    /\ th[t].idx < Len(Code(t))
    /\ Code(t)[th[t].idx + 1] \in {"child", "child_set"}
    /\ \E s \in DOMAIN th : s = FreeThread /\ th[s].pc = "idle"
    /\ LET set == [th[t] EXCEPT !.id_assigned_for_next_workflow =
                       IF Code(t)[th[t].idx + 1] = "child_set"
                       THEN ChildExplicitId ELSE @]
           cur_ctx == StartWorkflowCaller(set)
           new_wf_id == NewWorkflowId(cur_ctx)
       IN /\ workflow_status' =
                 update_workflow_status(workflow_status, NewStatus(new_wf_id),
                                        create_child(cur_ctx).in_recovery)
          /\ workflow_inputs' =
                 update_workflow_inputs(workflow_inputs, new_wf_id,
                                        serialize(<<"args">>))
          /\ th' = [th EXCEPT
                 ![FreeThread] = [IdleThread EXCEPT
                                      !.pc = "body",
                                      !.workflow_id = new_wf_id,
                                      !.in_recovery =
                                          create_child(cur_ctx).in_recovery,
                                      !.scopes = Scopes(FALSE),
                                      !.args = <<"args">>],
                 ![t] = Returned(
                          [cur_ctx EXCEPT !.id_assigned_for_next_workflow = <<>>,
                                          !.handle = new_wf_id],
                          Ok(<<>>))]
    /\ UNCHANGED <<cfg, app, inputs_buffer, operation_outputs, status_buffer,
                   transaction_outputs, app_writes, launches, crashes, calls>>

\* the call of a step or transaction returned: the body goes on
BodyContinue(t) ==
    /\ th[t].pc = "ret"
    /\ th[t].ret.kind = "ok"
    /\ th' = [th EXCEPT ![t] =
                 [IdleThread EXCEPT !.pc = "body",
                                    !.workflow_id = th[t].workflow_id,
                                    !.function_id = th[t].function_id,
                                    !.idx = th[t].idx + 1,
                                    !.args = th[t].args,
                                    !.in_recovery = th[t].in_recovery,
                                    !.scopes = th[t].scopes,
                                    !.assumed_role = th[t].assumed_role,
                                    !.acc = th[t].acc \o th[t].ret.val]]
    /\ UNCHANGED <<cfg, app, inputs_buffer, workflow_status,
                   workflow_inputs, operation_outputs, status_buffer,
                   transaction_outputs, app_writes, launches, crashes, calls>>

\* a finished thread: its future holds result r; the with statements have
\* left their scopes, the innermost first
Finished(c, r) ==
    [IdleThread EXCEPT !.pc = "done", !.workflow_id = c.workflow_id,
                       !.result = r, !.released = Reverse(c.scopes)]

\* _execute_workflow, lines 179-182 and 197: the body returned
WorkflowReturn(t) ==
    /\ th[t].pc = "body"
    /\ th[t].idx = Len(Code(t))
    /\ status_buffer' =
           Put(status_buffer, th[t].workflow_id,
               [StatusOf(t) EXCEPT
                    !.status = "SUCCESS", !.output = serialize(th[t].acc)])
    /\ th' = [th EXCEPT ![t] = Finished(@, Ok(@.acc))]
    /\ UNCHANGED <<cfg, app, inputs_buffer, workflow_status,
                   workflow_inputs, operation_outputs, transaction_outputs,
                   app_writes, launches, crashes, calls>>

\* variant of WorkflowRaise: the ERROR status is buffered like SUCCESS
WorkflowRaiseBuffered(t) ==
    /\ th[t].pc = "ret"
    /\ th[t].ret.kind = "err"
    /\ IF th[t].ret.val = DBOSWorkflowConflictIDError
       THEN /\ th' = [th EXCEPT ![t] =
                         [IdleThread EXCEPT !.pc = "await",
                                            !.workflow_id = th[t].workflow_id,
                                            !.scopes = th[t].scopes]]
            /\ UNCHANGED status_buffer
       ELSE /\ status_buffer' =
                   Put(status_buffer, th[t].workflow_id,
                       [StatusOf(t) EXCEPT
                            !.status = "ERROR",
                            !.error = serialize(th[t].ret.val)])
            /\ th' = [th EXCEPT ![t] = Finished(@, Err(@.ret.val))]
    /\ UNCHANGED <<cfg, app, inputs_buffer, workflow_inputs, workflow_status,
                   operation_outputs, transaction_outputs,
                   app_writes, launches, crashes, calls>>

\* _execute_workflow, lines 183-195: the call raised and the body let the
\* exception through
WorkflowRaise(t) ==
    /\ th[t].pc = "ret"
    /\ th[t].ret.kind = "err"
    /\ IF th[t].ret.val = DBOSWorkflowConflictIDError
       THEN /\ th' = [th EXCEPT ![t] =
                         [IdleThread EXCEPT !.pc = "await",
                                            !.workflow_id = th[t].workflow_id,
                                            !.scopes = th[t].scopes]]
            /\ UNCHANGED workflow_status
       ELSE /\ workflow_status' =
                   update_workflow_status(workflow_status,
                       [StatusOf(t) EXCEPT
                            !.status = "ERROR",
                            !.error = serialize(th[t].ret.val)], FALSE)
            /\ th' = [th EXCEPT ![t] = Finished(@, Err(@.ret.val))]
    /\ UNCHANGED <<cfg, app, inputs_buffer, workflow_inputs,
                   operation_outputs, status_buffer, transaction_outputs,
                   app_writes, launches, crashes, calls>>

\* _WorkflowHandlePolling.get_result (lines 110-112): await_workflow_result
\* blocks until the status row is terminal
AwaitResult(t) ==
    /\ th[t].pc = "await"
    /\ th[t].workflow_id \in DOMAIN workflow_status
    /\ LET row == workflow_status[th[t].workflow_id] IN
        /\ row.status \in Terminal
        /\ th' = [th EXCEPT ![t] =
                     Finished(@, IF row.status = "SUCCESS"
                                 THEN Ok(deserialize(row.output))
                                 ELSE Err(deserialize(row.error)))]
    /\ UNCHANGED <<cfg, app, inputs_buffer, workflow_status,
                   workflow_inputs, operation_outputs, status_buffer,
                   transaction_outputs, app_writes, launches, crashes, calls>>

\* the background flusher writes one buffered status
Flush ==
    /\ \E id \in DOMAIN status_buffer :
        /\ workflow_status' =
               update_workflow_status(workflow_status, status_buffer[id], FALSE)
        /\ status_buffer' =
               [x \in DOMAIN status_buffer \ {id} |-> status_buffer[x]]
    /\ UNCHANGED <<cfg, app, inputs_buffer, workflow_inputs,
                   operation_outputs, transaction_outputs, app_writes, th,
                   launches, crashes, calls>>

\* the background flusher writes the buffered inputs of a workflow whose
\* status row is written
FlushInputs ==
    /\ \E id \in DOMAIN inputs_buffer \cap DOMAIN workflow_status :
        /\ workflow_inputs' =
               update_workflow_inputs(workflow_inputs, id, inputs_buffer[id])
        /\ inputs_buffer' =
               [x \in DOMAIN inputs_buffer \ {id} |-> inputs_buffer[x]]
    /\ UNCHANGED <<cfg, app, workflow_status, operation_outputs,
                   status_buffer, transaction_outputs, app_writes, th,
                   launches, crashes, calls>>

\* the process dies: its threads and its buffers are lost, the databases stay
Crash ==
    /\ crashes < MaxCrashes
    /\ \E t \in DOMAIN th : th[t].pc \notin {"idle", "dead"}
    /\ crashes' = crashes + 1
    /\ th' = [t \in DOMAIN th |->
                 IF th[t].pc = "idle" THEN th[t]
                 ELSE [IdleThread EXCEPT !.pc = "dead",
                                         !.workflow_id = th[t].workflow_id]]
    /\ status_buffer' = <<>>
    /\ inputs_buffer' = <<>>
    /\ UNCHANGED <<cfg, app, workflow_status,
                   workflow_inputs, operation_outputs, transaction_outputs,
                   app_writes, launches, calls>>

Next ==
    \/ StartWorkflow
    \/ Recover
    \/ Flush
    \/ Crash
    \/ \E t \in Threads :
        \/ CallStep(t) \/ StepAttempt(t) \/ StepRecord(t)
        \/ CallTx(t) \/ TxBegin(t) \/ TxBody(t) \/ TxCommit(t)
        \/ TxRecordError(t)
        \/ InitInputs(t)
        \/ BodyContinue(t) \/ WorkflowReturn(t) \/ WorkflowRaise(t)
        \/ AwaitResult(t)

Spec == Init /\ [][Next]_vars

\* ---------------------------------------- workflows that start child workflows
PoolChild == 1..(MaxThreads * (MaxOps + 1))

BodiesChild ==
    {b \in UNION {[1..n -> {"step", "child", "child_set"}] : n \in 1..MaxOps} :
        \E i \in DOMAIN b : b[i] # "step"}

InitChild ==
    /\ body \in BodiesChild
    /\ retries_allowed = FALSE
    /\ max_attempts = 1
    /\ fnres = <<>>
    /\ func_type = "function"
    /\ call_args = <<"x">>
    /\ required_roles = FALSE
    /\ interval_seconds = 1
    /\ backoff_rate = 2
    /\ serfail_bound = MaxSerFail
    /\ serfail_forever = FALSE
    /\ registry = AllRegistered
    /\ recovery = NoRet
    /\ caller_ctx = NoContext
    /\ api = <<>>
    /\ sysdb_calls = {}
    /\ inputs_buffer = <<>>
    /\ workflow_status = <<>>
    /\ workflow_inputs = <<>>
    /\ operation_outputs = <<>>
    /\ status_buffer = <<>>
    /\ transaction_outputs = <<>>
    /\ app_writes = <<>>
    /\ th = [t \in PoolChild |-> IdleThread]
    /\ launches = 0
    /\ crashes = 0
    /\ calls = <<>>

NextChild ==
    \/ StartWorkflow
    \/ Recover
    \/ Flush
    \/ Crash
    \/ \E t \in PoolChild :
        \/ CallStep(t) \/ StepAttempt(t) \/ StepRecord(t)
        \/ StartChild(t)
        \/ InitInputs(t)
        \/ BodyContinue(t) \/ WorkflowReturn(t) \/ WorkflowRaise(t)
        \/ AwaitResult(t)

SpecChild == InitChild /\ [][NextChild]_vars

\* ------------------- one execution, a crash, one recovery; deterministic code
DetResults == {Ok(<<"a">>), Err(UserError)}

InitRecovery ==
    /\ body \in Bodies
    /\ retries_allowed \in BOOLEAN
    /\ max_attempts \in MinAttempts..MaxAttempts
    /\ (\A i \in DOMAIN body : body[i] # "step")
          => (retries_allowed = FALSE /\ max_attempts = 1)
    /\ fnres \in [DOMAIN body -> DetResults]
    /\ func_type = "function"
    /\ call_args = <<"x">>
    /\ required_roles = FALSE
    /\ interval_seconds = 1
    /\ backoff_rate = 2
    /\ serfail_bound = MaxSerFail
    /\ serfail_forever = FALSE
    /\ registry = AllRegistered
    /\ recovery = NoRet
    /\ caller_ctx = NoContext
    /\ api = <<>>
    /\ sysdb_calls = {}
    /\ inputs_buffer = <<>>
    /\ workflow_status = <<>>
    /\ workflow_inputs = <<>>
    /\ operation_outputs = <<>>
    /\ status_buffer = <<>>
    /\ transaction_outputs = <<>>
    /\ app_writes = <<>>
    /\ th = [t \in Threads |-> IdleThread]
    /\ launches = 0
    /\ crashes = 0
    /\ calls = <<>>

StartOnce == launches = 0 /\ StartWorkflow

\* recovery at the restart that follows the crash
RecoverCrashed ==
    /\ crashes > 0
    /\ \A t \in DOMAIN th : th[t].pc \in {"idle", "dead"}
    /\ Recover

NextRecovery ==
    \/ StartOnce
    \/ RecoverCrashed
    \/ Flush
    \/ Crash
    \/ \E t \in Threads :
        \/ CallStep(t) \/ StepAttempt(t) \/ StepRecord(t)
        \/ CallTx(t) \/ TxBegin(t) \/ TxBody(t) \/ TxCommit(t)
        \/ TxRecordError(t)
        \/ InitInputs(t)
        \/ BodyContinue(t) \/ WorkflowReturn(t) \/ WorkflowRaise(t)

SpecRecovery == InitRecovery /\ [][NextRecovery]_vars

\* --------- the application: one start, crashes, redeployments, recoveries
CallOnce == launches = 0 /\ CallWorkflow

\* longest list of positional arguments
MaxArgs == 2

ArgLists == {SubSeq(<<"x", "y", "z">>, 1, n) : n \in 0..MaxArgs}

InitApp ==
    /\ body \in [1..1 -> {"step", "tx"}]
    /\ retries_allowed = FALSE
    /\ max_attempts = 1
    /\ fnres \in [DOMAIN body -> DetResults]
    /\ func_type \in {"function", "class", "instance"}
    /\ call_args \in ArgLists
    /\ required_roles \in BOOLEAN
    /\ interval_seconds = 1
    /\ backoff_rate = 2
    /\ serfail_bound = MaxSerFail
    /\ serfail_forever = FALSE
    /\ registry = AllRegistered
    /\ recovery = NoRet
    /\ caller_ctx = NoContext
    /\ api = <<>>
    /\ sysdb_calls = {}
    /\ inputs_buffer = <<>>
    /\ workflow_status = <<>>
    /\ workflow_inputs = <<>>
    /\ operation_outputs = <<>>
    /\ status_buffer = <<>>
    /\ transaction_outputs = <<>>
    /\ app_writes = <<>>
    /\ th = [t \in Threads |-> IdleThread]
    /\ launches = 0
    /\ crashes = 0
    /\ calls = <<>>

NextApp ==
    \/ StartOnce
    \/ CallOnce
    \/ launches > 0 /\ Recover
    \/ RecoverFails
    \/ Redeploy
    \/ Flush
    \/ Crash
    \/ \E t \in Threads :
        \/ CallStep(t) \/ StepAttempt(t) \/ StepRecord(t)
        \/ CallTx(t) \/ TxBegin(t) \/ TxBody(t) \/ TxCommit(t)
        \/ TxRecordError(t)
        \/ InitInputs(t)
        \/ BodyContinue(t) \/ WorkflowReturn(t) \/ WorkflowRaise(t)
        \/ AwaitResult(t)

SpecApp == InitApp /\ [][NextApp]_vars

\* ------------------------------------- send, recv, set_event and get_event
DBOSException(msg) == <<"DBOSException", msg>>
AssertionError(msg) == <<"AssertionError", msg>>

\* DBOSContext.is_workflow and DBOSContext.is_within_workflow
is_workflow(ctx) == ctx.kind = "workflow"

is_within_workflow(ctx) == ctx.kind \in {"workflow", "step", "transaction"}

\* the context of a worker thread that runs a workflow body
ContextOf(t) ==
    [kind |-> "workflow", workflow_id |-> th[t].workflow_id,
     function_id |-> th[t].function_id]

\* EnterDBOSStep.__enter__: function_id + 1 becomes curr_step_function_id
EnterDBOSStep(ctx) ==
    [kind |-> "step", workflow_id |-> ctx.workflow_id,
     function_id |-> ctx.function_id + 1,
     curr_step_function_id |-> ctx.function_id + 1]

\* what the system database may answer to a call that is not recorded yet: a
\* message or an event value, None after the timeout; nothing for a write
MsgResults(op) ==
    IF op \in {"recv", "get_event"} THEN {<<"m">>, None} ELSE {None}

\* the arguments a call of the system database received: the ids of the
\* calling workflow, when they are passed
SysDbCall(op, ctx, timeout_function_id) ==
    [op |-> op, caller |-> TRUE, workflow_uuid |-> ctx.workflow_id,
     function_id |-> ctx.curr_step_function_id,
     timeout_function_id |-> timeout_function_id]

\* get_event without caller_ctx (line 747)
SysDbCallDirect(op) ==
    [op |-> op, caller |-> FALSE, workflow_uuid |-> <<>>, function_id |-> 0,
     timeout_function_id |-> 0]

\* SystemDatabase.send / recv / set_event / get_event called with the ids of
\* the caller: the recorded result when (workflow_uuid, function_id) has one,
\* else the answer v, recorded under that key
SysDbOutcome(db, call, v) ==
    LET rec == check_operation_execution(db, call.workflow_uuid,
                                         call.function_id)
    IN IF rec # <<>> THEN StepReplay(rec[1]) ELSE Ok(v)

SysDbRecord(db, call, v) ==
    LET k == <<call.workflow_uuid, call.function_id>>
    IN IF k \in DOMAIN db THEN db
       ELSE Put(db, k, [output |-> serialize(v), error |-> None])

\* the body of a with EnterDBOSStep block of _send, _recv, _set_event or
\* _get_event, run by thread t: reserve is 1 where the block reserves a second
\* function id for the timeout (lines 691 and 737), else 0
Messaging(t, op, reserve) ==
    /\ th[t].pc = "body"
    /\ th[t].idx < Len(Code(t))
    /\ Code(t)[th[t].idx + 1] = op
    /\ LET ctx == EnterDBOSStep(ContextOf(t))
           function_id == ctx.function_id + reserve
           call == SysDbCall(op, ctx, IF reserve = 1 THEN function_id ELSE 0)
       IN \E v \in MsgResults(op) :
           /\ th' = [th EXCEPT ![t] =
                 Returned([th[t] EXCEPT
                               !.function_id = function_id,
                               !.curr_step_function_id =
                                   ctx.curr_step_function_id],
                          SysDbOutcome(operation_outputs, call, v))]
           /\ operation_outputs' = SysDbRecord(operation_outputs, call, v)
           /\ sysdb_calls' = sysdb_calls \cup {call}
    /\ UNCHANGED <<cfg, registry, recovery, caller_ctx, api, inputs_buffer,
                   workflow_status, workflow_inputs, status_buffer,
                   transaction_outputs, app_writes, launches, crashes, calls>>

\* _send inside a workflow (lines 657-673)
Send(t) == Messaging(t, "send", 0)

\* _recv without line 691: no function id is reserved for the timeout
RecvNoReserve(t) == Messaging(t, "recv", 0)

\* _recv inside a workflow (lines 683-699)
Recv(t) == Messaging(t, "recv", 1)

\* _set_event inside a workflow (lines 706-718)
SetEvent(t) == Messaging(t, "set_event", 0)

\* _get_event inside a workflow (lines 727-744)
GetEvent(t) == Messaging(t, "get_event", 1)

\* a call of the application thread, outside the workflow, ends with outcome r
BareOutcome(op, r) ==
    /\ api' = Put(api, op, r)
    /\ UNCHANGED <<caller_ctx, sysdb_calls, operation_outputs>>

\* the with EnterDBOSStep block run on the context of the application thread
BareMessaging(op, reserve) ==
    LET ctx == EnterDBOSStep(caller_ctx)
        function_id == ctx.function_id + reserve
        call == SysDbCall(op, ctx, IF reserve = 1 THEN function_id ELSE 0)
    IN \E v \in MsgResults(op) :
        /\ api' = Put(api, op, SysDbOutcome(operation_outputs, call, v))
        /\ caller_ctx' = [caller_ctx EXCEPT !.function_id = function_id]
        /\ operation_outputs' = SysDbRecord(operation_outputs, call, v)
        /\ sysdb_calls' = sysdb_calls \cup {call}

BareUnchanged ==
    UNCHANGED <<cfg, registry, recovery, inputs_buffer, workflow_status,
                workflow_inputs, status_buffer, transaction_outputs,
                app_writes, th, launches, crashes, calls>>

\* _recv (lines 680-702) called by the application thread
BareRecv ==
    /\ "recv" \notin DOMAIN api
    /\ IF caller_ctx.kind # "none"
       THEN IF ~is_workflow(caller_ctx)
            THEN BareOutcome("recv", Err(AssertionError(
                     "recv() must be called from within a workflow")))
            ELSE BareMessaging("recv", 1)
       ELSE BareOutcome("recv", Err(DBOSException(
                "recv() must be called from within a workflow")))
    /\ BareUnchanged

\* _set_event (lines 705-721) called by the application thread
BareSetEvent ==
    /\ "set_event" \notin DOMAIN api
    /\ IF caller_ctx.kind # "none"
       THEN IF ~is_workflow(caller_ctx)
            THEN BareOutcome("set_event", Err(AssertionError(
                     "set_event() must be called from within a workflow")))
            ELSE BareMessaging("set_event", 0)
       ELSE BareOutcome("set_event", Err(DBOSException(
                "set_event() must be called from within a workflow")))
    /\ BareUnchanged

\* _get_event (lines 724-747) called by the application thread
BareGetEvent ==
    /\ "get_event" \notin DOMAIN api
    /\ IF caller_ctx.kind # "none" /\ is_within_workflow(caller_ctx)
       THEN IF ~is_workflow(caller_ctx)
            THEN BareOutcome("get_event", Err(AssertionError(
                     "get_event() must be called from within a workflow")))
            ELSE BareMessaging("get_event", 1)
       ELSE \E v \in MsgResults("get_event") :
                /\ api' = Put(api, "get_event", Ok(v))
                /\ sysdb_calls' = sysdb_calls \cup {SysDbCallDirect("get_event")}
                /\ UNCHANGED <<caller_ctx, operation_outputs>>
    /\ BareUnchanged

\* ---------- steps, transactions and messaging called outside any workflow
\* a call of the application thread that launches nothing leaves the threads
\* and the workflow tables alone
BareReturns(op, r) ==
    /\ op \notin DOMAIN api
    /\ api' = Put(api, op, r)
    /\ UNCHANGED <<cfg, registry, recovery, caller_ctx, sysdb_calls,
                   inputs_buffer, workflow_status, workflow_inputs,
                   operation_outputs, status_buffer, transaction_outputs,
                   app_writes, th, launches, crashes, calls>>

\* the step the caller is in
NestedKey == <<caller_ctx.workflow_id, caller_ctx.function_id>>

\* line 631: `return func(*args, **kwargs)`, one run of the user function
\* counted under the enclosing step
NestedCall ==
    /\ "step" \notin DOMAIN api
    /\ \E r \in {Ok(v) : v \in Vals} \cup {Err(UserError)} :
           api' = Put(api, "step", r)
    /\ calls' = Bump(calls, NestedKey)
    /\ UNCHANGED <<cfg, registry, recovery, caller_ctx, sysdb_calls,
                   inputs_buffer, workflow_status, workflow_inputs,
                   operation_outputs, status_buffer, transaction_outputs,
                   app_writes, th, launches, crashes>>

\* variant of BareStep without the test of ctx.is_step()
BareStepNoBypass ==
    IF is_within_workflow(caller_ctx)
    THEN BareReturns("step", Err(AssertionError(
             "Steps must be called from within workflows")))
    ELSE /\ \A t \in DOMAIN th : th[t].workflow_id # TempStepId
         /\ Launch(TRUE, TempStepId, FALSE, <<>>, call_args)

\* _step.decorator.wrapper (lines 622-639) called by the application thread:
\* inside a step the function is called directly, outside any workflow the
\* call goes through the temp workflow "<temp>." + func.__qualname__
BareStep ==
    IF is_within_workflow(caller_ctx)
    THEN IF caller_ctx.kind = "step"
         THEN NestedCall
         ELSE BareReturns("step", Err(AssertionError(
                  "Steps must be called from within workflows")))
    ELSE /\ \A t \in DOMAIN th : th[t].workflow_id # TempStepId
         /\ Launch(TRUE, TempStepId, FALSE, <<>>, call_args)

\* _transaction.decorator.wrapper (lines 507-523) called by the application
\* thread
BareTx ==
    IF is_within_workflow(caller_ctx)
    THEN BareReturns("tx", Err(AssertionError(
             "Transactions must be called from within workflows")))
    ELSE /\ \A t \in DOMAIN th : th[t].workflow_id # TempTxId
         /\ Launch(TRUE, TempTxId, FALSE, <<>>, call_args)

\* the application starts its workflow, once
StartRoot ==
    /\ \A t \in DOMAIN th : th[t].workflow_id # RootId
    /\ StartWorkflow

\* the contexts of the application thread: none, one that is not within a
\* workflow (SetWorkflowID alone), the user function of a step or of a
\* transaction of another workflow
CallerContexts ==
    {NoContext, [NoContext EXCEPT !.kind = "outside"]}
    \cup {[kind |-> k, workflow_id |-> <<"v">>, function_id |-> 1] :
             k \in {"step", "transaction"}}

InitBare ==
    /\ body \in [1..1 -> {"step", "tx"}]
    /\ retries_allowed = FALSE
    /\ max_attempts = 1
    /\ fnres = <<>>
    /\ func_type = "function"
    /\ call_args = <<"x">>
    /\ required_roles = FALSE
    /\ interval_seconds = 1
    /\ backoff_rate = 2
    /\ serfail_bound = MaxSerFail
    /\ serfail_forever = FALSE
    /\ registry = AllRegistered
    /\ recovery = NoRet
    /\ caller_ctx \in CallerContexts
    /\ api = <<>>
    /\ sysdb_calls = {}
    /\ inputs_buffer = <<>>
    /\ workflow_status = <<>>
    /\ workflow_inputs = <<>>
    /\ operation_outputs = <<>>
    /\ status_buffer = <<>>
    /\ transaction_outputs = <<>>
    /\ app_writes = <<>>
    /\ th = [t \in Threads |-> IdleThread]
    /\ launches = 0
    /\ crashes = 0
    /\ calls = <<>>

NextBare ==
    \/ StartRoot
    \/ BareStep
    \/ BareTx
    \/ BareRecv
    \/ BareSetEvent
    \/ BareGetEvent
    \/ Flush
    \/ FlushInputs
    \/ Crash
    \/ \E t \in Threads :
        \/ CallStep(t) \/ StepAttempt(t) \/ StepRecord(t)
        \/ CallTx(t) \/ TxBegin(t) \/ TxBody(t) \/ TxCommit(t)
        \/ TxRecordError(t)
        \/ InitInputs(t)
        \/ BodyContinue(t) \/ WorkflowReturn(t) \/ WorkflowRaise(t)

SpecBare == InitBare /\ [][NextBare]_vars

\* ------------ a workflow of messaging operations, started once and recovered
MsgOps == {"send", "recv", "set_event", "get_event"}

BodiesMsg ==
    {b \in UNION {[1..n -> MsgOps \cup {"step"}] : n \in 1..MaxOps} :
        \E i \in DOMAIN b : b[i] \in MsgOps}

InitMsg ==
    /\ body \in BodiesMsg
    /\ retries_allowed = FALSE
    /\ max_attempts = 1
    /\ fnres = <<>>
    /\ func_type = "function"
    /\ call_args = <<"x">>
    /\ required_roles = FALSE
    /\ interval_seconds = 1
    /\ backoff_rate = 2
    /\ serfail_bound = MaxSerFail
    /\ serfail_forever = FALSE
    /\ registry = AllRegistered
    /\ recovery = NoRet
    /\ caller_ctx \in {NoContext, [NoContext EXCEPT !.kind = "outside"]}
    /\ api = <<>>
    /\ sysdb_calls = {}
    /\ inputs_buffer = <<>>
    /\ workflow_status = <<>>
    /\ workflow_inputs = <<>>
    /\ operation_outputs = <<>>
    /\ status_buffer = <<>>
    /\ transaction_outputs = <<>>
    /\ app_writes = <<>>
    /\ th = [t \in Threads |-> IdleThread]
    /\ launches = 0
    /\ crashes = 0
    /\ calls = <<>>

NextMsg ==
    \/ StartOnce
    \/ RecoverCrashed
    \/ BareGetEvent
    \/ Flush
    \/ Crash
    \/ \E t \in Threads :
        \/ CallStep(t) \/ StepAttempt(t) \/ StepRecord(t)
        \/ Send(t) \/ Recv(t) \/ SetEvent(t) \/ GetEvent(t)
        \/ InitInputs(t)
        \/ BodyContinue(t) \/ WorkflowReturn(t) \/ WorkflowRaise(t)

SpecMsg == InitMsg /\ [][NextMsg]_vars

\* -------------------------------------- one step and its retries, started once
\* largest max_attempts of the step whose sleeps are followed
MaxSleepAttempts == 3

InitStepRetry ==
    /\ body = <<"step">>
    /\ retries_allowed \in BOOLEAN
    /\ max_attempts \in MinAttempts..MaxSleepAttempts
    /\ fnres = <<>>
    /\ func_type = "function"
    /\ call_args = <<"x">>
    /\ required_roles = FALSE
    /\ interval_seconds \in {1, 2000}
    /\ backoff_rate \in {1, 2}
    /\ serfail_bound = MaxSerFail
    /\ serfail_forever = FALSE
    /\ registry = AllRegistered
    /\ recovery = NoRet
    /\ caller_ctx = NoContext
    /\ api = <<>>
    /\ sysdb_calls = {}
    /\ inputs_buffer = <<>>
    /\ workflow_status = <<>>
    /\ workflow_inputs = <<>>
    /\ operation_outputs = <<>>
    /\ status_buffer = <<>>
    /\ transaction_outputs = <<>>
    /\ app_writes = <<>>
    /\ th = [t \in Threads |-> IdleThread]
    /\ launches = 0
    /\ crashes = 0
    /\ calls = <<>>

NextStepRetry ==
    \/ StartOnce
    \/ Flush
    \/ \E t \in Threads :
        \/ CallStep(t) \/ StepAttempt(t) \/ StepRecord(t)
        \/ InitInputs(t)
        \/ BodyContinue(t) \/ WorkflowReturn(t) \/ WorkflowRaise(t)

SpecStepRetry == InitStepRetry /\ [][NextStepRetry]_vars

\* ------- two transactions in a row over a database that may fail forever
\* the count of serialization failures up to which one invocation is followed
MaxTxRetries == 21

InitTxRetry ==
    /\ body = <<"tx", "tx">>
    /\ retries_allowed = FALSE
    /\ max_attempts = 1
    /\ fnres = <<>>
    /\ func_type = "function"
    /\ call_args = <<"x">>
    /\ required_roles = FALSE
    /\ interval_seconds = 1
    /\ backoff_rate = 2
    /\ serfail_bound = MaxTxRetries
    /\ serfail_forever = TRUE
    /\ registry = AllRegistered
    /\ recovery = NoRet
    /\ caller_ctx = NoContext
    /\ api = <<>>
    /\ sysdb_calls = {}
    /\ inputs_buffer = <<>>
    /\ workflow_status = <<>>
    /\ workflow_inputs = <<>>
    /\ operation_outputs = <<>>
    /\ status_buffer = <<>>
    /\ transaction_outputs = <<>>
    /\ app_writes = <<>>
    /\ th = [t \in Threads |-> IdleThread]
    /\ launches = 0
    /\ crashes = 0
    /\ calls = <<>>

\* the steps of the worker threads
ThreadTxRetry ==
    \E t \in Threads :
        \/ CallTx(t) \/ TxBegin(t) \/ TxBody(t) \/ TxCommit(t)
        \/ TxRecordError(t)
        \/ InitInputs(t)
        \/ BodyContinue(t) \/ WorkflowReturn(t) \/ WorkflowRaise(t)

\* ---- a step called from inside a step of another workflow, next to a
\* workflow that calls the same step itself ----
InitNested ==
    /\ body = <<"step">>
    /\ retries_allowed \in BOOLEAN
    /\ max_attempts \in MinAttempts..MaxAttempts
    /\ fnres = <<>>
    /\ func_type = "function"
    /\ call_args = <<"x">>
    /\ required_roles = FALSE
    /\ interval_seconds = 1
    /\ backoff_rate = 2
    /\ serfail_bound = MaxSerFail
    /\ serfail_forever = FALSE
    /\ registry = AllRegistered
    /\ recovery = NoRet
    /\ caller_ctx = [kind |-> "step", workflow_id |-> <<"v">>,
                    function_id |-> 1]
    /\ api = <<>>
    /\ sysdb_calls = {}
    /\ inputs_buffer = <<>>
    /\ workflow_status = <<>>
    /\ workflow_inputs = <<>>
    /\ operation_outputs = <<>>
    /\ status_buffer = <<>>
    /\ transaction_outputs = <<>>
    /\ app_writes = <<>>
    /\ th = [t \in Threads |-> IdleThread]
    /\ launches = 0
    /\ crashes = 0
    /\ calls = <<>>

NextNested ==
    \/ StartRoot
    \/ BareStep
    \/ Flush
    \/ \E t \in Threads :
        \/ CallStep(t) \/ StepAttempt(t) \/ StepRecord(t)
        \/ InitInputs(t)
        \/ BodyContinue(t) \/ WorkflowReturn(t) \/ WorkflowRaise(t)

SpecNested == InitNested /\ [][NextNested]_vars

\* the workflow is called again, with the same workflow id, once its first
\* execution is over
StartAgain ==
    /\ launches = 1
    /\ \A t \in Threads : th[t].pc \in {"idle", "done"}
    /\ StartWorkflow

NextTxRetry ==
    \/ StartOnce
    \/ StartAgain
    \/ Flush
    \/ ThreadTxRetry

\* a thread that can take a step takes one
SpecTxRetry ==
    InitTxRetry /\ [][NextTxRetry]_vars /\ WF_vars(ThreadTxRetry)

\* ------------------------------------------------------------------ claims
\* the operation a thread is calling or has just called
Op(t) == Code(t)[th[t].idx + 1]

InOp(t, kind) ==
    /\ th[t].pc \notin {"idle", "init", "dead", "done", "await", "body"}
    /\ Op(t) = kind

\* C1: a step entered when a result is already recorded for its key does not
\* run the user function, writes no operation result, and returns the recorded
\* output or raises the recorded error.
C1_StepReplay ==
    \A t \in DOMAIN th :
        (InOp(t, "step") /\ th[t].pc = "ret" /\ th[t].recorded # <<>>) =>
            LET row == th[t].recorded[1] IN
            /\ th[t].ran = 0
            /\ ~th[t].wrote
            /\ \/ row.output # None /\ th[t].ret = Ok(deserialize(row.output))
               \/ row.error # None /\ th[t].ret = Err(deserialize(row.error))

\* C4: every row of operation_outputs and of transaction_outputs has exactly
\* one of output and error non-null.
C4_ExactlyOneOfOutputError ==
    /\ \A k \in DOMAIN operation_outputs :
        (operation_outputs[k].output = None) # (operation_outputs[k].error = None)
    /\ \A k \in DOMAIN transaction_outputs :
        (transaction_outputs[k].output = None)
            # (transaction_outputs[k].error = None)

\* C8: with retries_allowed, a step whose user function raised on every
\* attempt has run it max_attempts times and records and raises
\* DBOSMaxStepRetriesExceeded; after an attempt that succeeded the output of
\* that attempt is recorded with no error.
C8_StepRetries ==
    \A t \in DOMAIN th :
        (retries_allowed /\ InOp(t, "step") /\ th[t].recorded = <<>>) =>
            /\ th[t].pc = "step_record" =>
                IF th[t].rec_output # None
                THEN th[t].error = None
                ELSE /\ th[t].ran = max_attempts
                     /\ th[t].error = DBOSMaxStepRetriesExceeded
            /\ (th[t].pc = "ret" /\ th[t].wrote) =>
                LET row == operation_outputs[Key(t)] IN
                IF th[t].ret.kind = "ok"
                THEN row = [output |-> serialize(th[t].ret.val), error |-> None]
                ELSE /\ th[t].ret.val = DBOSMaxStepRetriesExceeded
                     /\ th[t].ran = max_attempts
                     /\ row = [output |-> None,
                               error |-> serialize(DBOSMaxStepRetriesExceeded)]

\* C10: an error that ends a transaction invocation, other than the replay of
\* a recorded error, is in the transaction_outputs row of its key when it is
\* raised to the caller.
C10_TxErrorRecorded ==
    \A t \in DOMAIN th :
        (InOp(t, "tx") /\ th[t].pc = "ret" /\ th[t].ret.kind = "err"
            /\ ~th[t].has_recorded_error) =>
            /\ Key(t) \in DOMAIN transaction_outputs
            /\ transaction_outputs[Key(t)].error = serialize(th[t].ret.val)

\* C2: the writes of a transaction's user function are committed at most
\* once per key, in the very step that commits the key's output row and in no
\* other; a row is never changed; an attempt that starts when a row exists
\* returns or raises what the row holds without a call of the user function.
C2_TxAtMostOnce ==
    [][/\ \A k \in DOMAIN app_writes' :
            /\ app_writes'[k] = 1
            /\ k \in DOMAIN transaction_outputs'
            /\ transaction_outputs'[k].output # None
       /\ \A k \in DOMAIN transaction_outputs' :
            /\ k \in DOMAIN transaction_outputs =>
                   transaction_outputs'[k] = transaction_outputs[k]
            /\ (k \notin DOMAIN transaction_outputs
                    /\ transaction_outputs'[k].output # None)
                 <=> (k \notin DOMAIN app_writes /\ k \in DOMAIN app_writes')
       /\ \A t \in DOMAIN th :
            (/\ th[t].pc = "tx_begin"
             /\ Key(t) \in DOMAIN transaction_outputs
             /\ th'[t] # th[t]
             /\ crashes' = crashes) =>
                LET row == transaction_outputs[Key(t)] IN
                /\ calls' = calls
                /\ \/ th'[t].pc = "tx_begin"
                   \/ /\ th'[t].pc = "ret"
                      /\ th'[t].ret = IF row.error # None
                                      THEN Err(deserialize(row.error))
                                      ELSE Ok(deserialize(row.output))
      ]_vars

\* an executor ran the body, lost the commit to another executor and then
\* returned the other's recorded output
C2_Witness ==
    \E t \in DOMAIN th :
        /\ InOp(t, "tx") /\ th[t].pc = "ret" /\ th[t].recorded # <<>>
        /\ th[t].ran >= 1
        /\ Key(t) \in DOMAIN calls /\ calls[Key(t)] >= 2
        /\ Key(t) \in DOMAIN app_writes /\ app_writes[Key(t)] = 1

C6_FunctionIds ==
    /\ \A t \in DOMAIN th :
        /\ th[t].pc = "body" => th[t].function_id = th[t].idx
        /\ th[t].pc \in {"step_attempt", "step_record", "tx_begin", "tx_body",
                         "tx_commit", "tx_record_error", "ret"} =>
               th[t].function_id = th[t].idx + 1
    /\ \A k \in DOMAIN operation_outputs :
        k[1] = RootId /\ k[2] \in 1..Len(body) /\ body[k[2]] = "step"
    /\ \A k \in DOMAIN transaction_outputs :
        k[1] = RootId /\ k[2] \in 1..Len(body) /\ body[k[2]] = "tx"

\* after a crash, the recovery replays the first operation and finds the
\* record of the second under function_id 2
C6_Witness ==
    /\ crashes > 0
    /\ \E t \in DOMAIN th :
        /\ th[t].pc = "ret" /\ th[t].idx = 1 /\ th[t].function_id = 2
        /\ th[t].recorded # <<>>

\* C9 as stated: no serialization failure is surfaced or recorded, and a
\* transaction that returns after k serialization failures (a plain replay
\* with k = 0 set aside) has run its body k + 1 times and its key holds one
\* output row.
C9_BodyRunsKPlusOne ==
    /\ \A k \in DOMAIN transaction_outputs :
        transaction_outputs[k].error # serialize(SerializationFailure)
    /\ \A t \in DOMAIN th :
        InOp(t, "tx") =>
            /\ th[t].pc = "ret" => th[t].ret # Err(SerializationFailure)
            /\ th[t].pc = "tx_record_error" =>
                   th[t].error # SerializationFailure
            /\ (/\ th[t].pc = "ret" /\ th[t].ret.kind = "ok"
                /\ (th[t].serfail > 0 \/ th[t].wrote)) =>
                /\ th[t].ran = th[t].serfail + 1
                /\ Key(t) \in DOMAIN transaction_outputs
                /\ transaction_outputs[Key(t)] =
                       [output |-> serialize(th[t].ret.val), error |-> None]

\* C9 amended: the body has run once for each serialization failure raised at
\* or after the body, and once more if the last attempt did not find a
\* recorded result: at most k + 1 times.
C9_SerializationAbsorbed ==
    /\ \A k \in DOMAIN transaction_outputs :
        transaction_outputs[k].error # serialize(SerializationFailure)
    /\ \A t \in DOMAIN th :
        InOp(t, "tx") =>
            /\ th[t].pc = "ret" => th[t].ret # Err(SerializationFailure)
            /\ th[t].pc = "tx_record_error" =>
                   th[t].error # SerializationFailure
            /\ (th[t].pc = "ret" /\ th[t].ret.kind = "ok") =>
                /\ th[t].ran = th[t].serfail - th[t].chkfail
                                   + (IF th[t].wrote THEN 1 ELSE 0)
                /\ th[t].ran <= th[t].serfail + 1
                /\ Key(t) \in DOMAIN transaction_outputs
                /\ transaction_outputs[Key(t)] =
                       [output |-> serialize(th[t].ret.val), error |-> None]

\* two serialization failures after the body, then a commit: three runs
C9_Witness ==
    \E t \in DOMAIN th :
        /\ InOp(t, "tx") /\ th[t].pc = "ret" /\ th[t].ret.kind = "ok"
        /\ th[t].wrote /\ th[t].serfail = 2 /\ th[t].ran = 3

\* C7: start_workflow called in a workflow bumps the caller's function_id by
\* one; with no id set the handle's id is the caller's id, "-" and the
\* position of the call among the body's operations, in every execution; with
\* an id set it is that id; the workflow of the handle has its status row.
C7_ChildWorkflowId ==
    \A t \in DOMAIN th :
        /\ th[t].pc = "body" => th[t].function_id = th[t].idx
        /\ (th[t].pc = "ret" /\ Op(t) \in {"child", "child_set"}) =>
            /\ th[t].function_id = th[t].idx + 1
            /\ th[t].handle =
                   IF Op(t) = "child"
                   THEN th[t].workflow_id \o <<"-">> \o str(th[t].idx + 1)
                   ELSE ChildExplicitId
            /\ th[t].handle \in DOMAIN workflow_status
            /\ \E s \in DOMAIN th : th[s].workflow_id = th[t].handle

\* the recovery of the parent starts its second child again under "w-2"
C7_Witness ==
    /\ crashes = 1
    /\ \E t \in DOMAIN th :
        /\ th[t].pc = "ret" /\ Op(t) = "child" /\ th[t].idx = 1
        /\ th[t].handle = <<"w", "-", "2">>
        /\ \E s \in DOMAIN th :
            th[s].pc = "dead" /\ th[s].workflow_id = th[t].handle

\* ---------------------------------------------------------- crash recovery
\* what the call of operation i returns or raises in an execution that is
\* alone, starts with no record and meets no serialization failure: the step's
\* retry loop (lines 579-617) or the transaction's block (lines 474-502)
CrashFreeOp(i) ==
    IF body[i] = "step"
    THEN IF local_max_attempts < 1 THEN Ok(None)
         ELSE IF fnres[i].kind = "ok" THEN fnres[i]
         ELSE Err(StepErrorAfter(local_max_attempts, fnres[i].val))
    ELSE fnres[i]

RECURSIVE CrashFreeFrom(_, _)
\* the body from its operation i on, acc being what it has collected so far
CrashFreeFrom(i, acc) ==
    IF i > Len(body) THEN Ok(acc)
    ELSE IF CrashFreeOp(i).kind = "ok"
         THEN CrashFreeFrom(i + 1, acc \o CrashFreeOp(i).val)
         ELSE CrashFreeOp(i)

\* the result of the workflow in a run without crash
CrashFree == CrashFreeFrom(1, <<>>)

\* the oracle is the result of every execution that no crash preceded
CrashFreeIsTheRunWithoutCrash ==
    \A t \in DOMAIN th :
        (th[t].pc = "done" /\ crashes = 0) => th[t].result = CrashFree

\* C3: an execution that recovers the workflow after a crash runs under the
\* same id, calls the user function of no operation that has a record, and
\* ends with the result of the run without crash; the terminal status row
\* holds that result.
C3_RecoveryReachesCrashFreeOutput ==
    /\ \A t \in DOMAIN th :
        (crashes > 0 /\ th[t].pc \notin {"idle", "dead"}) =>
            /\ th[t].workflow_id = RootId
            /\ (th[t].pc = "ret" /\ th[t].recorded # <<>>) => th[t].ran = 0
            /\ th[t].pc = "done" => th[t].result = CrashFree
    /\ (/\ crashes > 0
        /\ RootId \in DOMAIN workflow_status
        /\ workflow_status[RootId].status \in Terminal) =>
            LET row == workflow_status[RootId] IN
            IF CrashFree.kind = "ok"
            THEN row.status = "SUCCESS"
                    /\ row.output = serialize(CrashFree.val)
            ELSE row.status = "ERROR"
                    /\ row.error = serialize(CrashFree.val)

C12_ConcurrentStartsConverge ==
    [][/\ \A t \in DOMAIN th :
            LET id == th[t].workflow_id IN
            /\ (th[t].pc = "ret" /\ th'[t].pc = "await") =>
                  /\ th[t].ret = Err(DBOSWorkflowConflictIDError)
                  /\ workflow_status' = workflow_status
                  /\ status_buffer' = status_buffer
            /\ (th[t].pc = "await" /\ th'[t].pc = "done") =>
                  /\ workflow_status' = workflow_status
                  /\ status_buffer' = status_buffer
                  /\ workflow_status[id].status \in Terminal
                  /\ th'[t].result =
                         IF workflow_status[id].status = "SUCCESS"
                         THEN Ok(deserialize(workflow_status[id].output))
                         ELSE Err(deserialize(workflow_status[id].error))
       /\ \A t, u \in DOMAIN th :
            (/\ th'[t].pc = "done" /\ th'[u].pc = "done"
             /\ th'[t].workflow_id = th'[u].workflow_id) =>
                th'[t].result = th'[u].result
      ]_vars

\* something recovery needs for the workflow id is missing
C13_Missing ==
    \/ RootId \notin DOMAIN workflow_status
    \/ RootId \notin DOMAIN workflow_inputs
    \/ ~registry.workflow
    \/ /\ RootId \in DOMAIN workflow_status
       /\ \/ workflow_status[RootId].config_name # None /\ ~registry.instance
          \/ /\ workflow_status[RootId].config_name = None
             /\ workflow_status[RootId].class_name # None
             /\ ~registry.class

\* C13: a call of recovery raises only when a row, the function, the instance
\* or the class is missing: DBOSRecoveryError for a row,
\* DBOSWorkflowFunctionNotFoundError otherwise; the raising call starts no
\* execution and writes no row; and no recovery starts an execution while
\* something is missing.
C13_RecoveryErrors ==
    [][/\ recovery' # recovery =>
            /\ C13_Missing
            /\ recovery'.kind = "err"
            /\ recovery'.val[1] =
                   IF RootId \notin DOMAIN workflow_status
                          \/ RootId \notin DOMAIN workflow_inputs
                   THEN "DBOSRecoveryError"
                   ELSE "DBOSWorkflowFunctionNotFoundError"
            /\ UNCHANGED <<workflow_status, workflow_inputs,
                           operation_outputs, status_buffer,
                           transaction_outputs, app_writes, th, launches>>
       /\ (launches > 0 /\ launches' > launches) => ~C13_Missing
      ]_vars

\* recovery was refused because the instance of the method is not registered
\* in the deployment that runs after the crash
C13_Witness ==
    /\ crashes > 0
    /\ func_type = "instance"
    /\ registry.workflow /\ ~registry.instance
    /\ recovery =
           Err(DBOSWorkflowFunctionNotFoundError("instance not registered"))
    /\ RootId \in DOMAIN workflow_inputs

\* C14: the execution a recovery starts runs with in_recovery set, and the
\* status upsert of that start adds one to recovery_attempts.
C14_RecoveryMarksInRecovery ==
    [][(launches > 0 /\ launches' > launches) =>
          /\ workflow_status'[RootId].recovery_attempts =
                 workflow_status[RootId].recovery_attempts + 1
          /\ \A t \in DOMAIN th :
                (th[t].pc = "idle" /\ th'[t].pc = "init") =>
                    th'[t].in_recovery
      ]_vars

\* C15: the inputs row holds the positional arguments of the application's
\* call, without the receiver, and every execution of the id, the recovered
\* ones included, is entered with the receiver followed by those arguments.
C15_InputsRoundTrip ==
    /\ RootId \in DOMAIN workflow_inputs =>
           deserialize(workflow_inputs[RootId]) = call_args
    /\ \A t \in DOMAIN th :
          th[t].pc \notin {"idle", "dead", "done", "await"} =>
              th[t].args = Receiver(func_type) \o call_args

\* the function ids the first i operations of a body consume when recv and
\* get_event take two each and every other operation one
IdsBefore(code, i) ==
    i + Cardinality({j \in 1..i : code[j] \in {"recv", "get_event"}})

\* C20: recv and get_event called inside a workflow advance the function_id
\* of the workflow by two, the call being made under the first id with the
\* next one as its timeout id, so that the following operation gets the first
\* id plus two; send and set_event advance it by one; get_event called outside
\* a workflow leaves the caller's function_id alone and hands the database no
\* caller context.
C20_MessagingFunctionIds ==
    [][/\ \A t \in DOMAIN th :
            (th[t].pc = "body" /\ th'[t].pc = "ret" /\ Op(t) \in MsgOps) =>
                LET first == th[t].function_id + 1
                    two == Op(t) \in {"recv", "get_event"}
                    call == [op |-> Op(t), caller |-> TRUE,
                             workflow_uuid |-> th[t].workflow_id,
                             function_id |-> first,
                             timeout_function_id |->
                                 IF two THEN first + 1 ELSE 0]
                IN /\ th'[t].function_id = IF two THEN first + 1 ELSE first
                   /\ call \in sysdb_calls'
                   /\ sysdb_calls' \ sysdb_calls \subseteq {call}
                   /\ DOMAIN operation_outputs' \ DOMAIN operation_outputs
                          \subseteq {<<th[t].workflow_id, first>>}
       /\ \A t \in DOMAIN th :
            /\ th'[t].pc = "body" =>
                  th'[t].function_id = IdsBefore(Code(t)', th'[t].idx)
            /\ (th[t].pc = "body" /\ th'[t].pc \notin {"body", "dead", "done"})
                  => th'[t].function_id
                         = IdsBefore(Code(t), th[t].idx + 1)
       /\ ("get_event" \notin DOMAIN api /\ "get_event" \in DOMAIN api'
              /\ ~is_within_workflow(caller_ctx)) =>
            /\ caller_ctx' = caller_ctx
            /\ sysdb_calls' \ sysdb_calls
                   \subseteq {SysDbCallDirect("get_event")}
            /\ SysDbCallDirect("get_event") \in sysdb_calls'
            /\ operation_outputs' = operation_outputs
      ]_vars

C20_Witness ==
    /\ body = <<"recv", "send">>
    /\ "get_event" \in DOMAIN api
    /\ \E t \in DOMAIN th :
        /\ th[t].pc = "ret" /\ th[t].idx = 1 /\ th[t].function_id = 3
        /\ [op |-> "recv", caller |-> TRUE, workflow_uuid |-> RootId,
            function_id |-> 1, timeout_function_id |-> 2] \in sysdb_calls
        /\ [op |-> "send", caller |-> TRUE, workflow_uuid |-> RootId,
            function_id |-> 3, timeout_function_id |-> 0] \in sysdb_calls

\* C16: recv and set_event called by a caller that is not inside a workflow
\* (no context, a context that is not within a workflow, or one nested in a
\* step or transaction) raise DBOSException, consume no function_id and
\* write nothing to the system database.
C16_OutsideWorkflowRaisesDBOSException ==
    [][\A op \in {"recv", "set_event"} :
        (op \notin DOMAIN api /\ op \in DOMAIN api'
           /\ ~is_workflow(caller_ctx)) =>
            /\ api'[op].kind = "err"
            /\ api'[op].val[1] = "DBOSException"
            /\ caller_ctx' = caller_ctx
            /\ sysdb_calls' = sysdb_calls
            /\ operation_outputs' = operation_outputs
            /\ workflow_status' = workflow_status
      ]_vars

\* C19: a workflow that is not a single-transaction temp workflow, the temp
\* workflow of a step called outside any workflow included, has its PENDING
\* status row written (not buffered) before its inputs row and both before
\* its body starts, so every operation_outputs row belongs to a workflow id
\* that has a status row; a single-transaction temp workflow starts its body
\* with no status row and with its inputs in the buffer only.
C19_StatusBeforeResults ==
    /\ \A k \in DOMAIN operation_outputs : k[1] \in DOMAIN workflow_status
    /\ \A id \in DOMAIN workflow_inputs \ {TempTxId} :
           id \in DOMAIN workflow_status
    /\ \A t \in DOMAIN th :
        /\ (th[t].pc # "idle" /\ th[t].workflow_id # TempTxId) =>
               th[t].workflow_id \in DOMAIN workflow_status
        /\ (th[t].pc \notin {"idle", "init", "dead"}
               /\ th[t].workflow_id # TempTxId) =>
               th[t].workflow_id \in DOMAIN workflow_inputs
        /\ (th[t].pc = "body" /\ th[t].idx = 0
               /\ th[t].workflow_id = TempTxId) =>
               /\ TempTxId \notin DOMAIN workflow_status
               /\ TempTxId \notin DOMAIN workflow_inputs
               /\ TempTxId \in DOMAIN inputs_buffer

C19_Witness ==
    /\ <<TempStepId, 1>> \in DOMAIN operation_outputs
    /\ \E t \in DOMAIN th :
        /\ th[t].pc = "body" /\ th[t].idx = 0
        /\ th[t].workflow_id = TempTxId

\* a thread that runs a workflow body
Running(t) == th[t].pc \notin {"idle", "init", "dead", "done"}

\* C17: every workflow execution, on the caller's thread or on a worker
\* thread after start_workflow or recovery, runs inside the enter-workflow
\* scope and, within it, the assume-role scope (both inside the context swap
\* on a worker thread), so that for a function that declares required roles
\* ctx.assumed_role is set during the body and in the persisted status; every
\* exit releases the scopes in reverse order.
C17_ScopesAndAssumedRole ==
    LET Inner == <<"EnterDBOSWorkflow", "DBOSAssumeRole">>
        Acquired == {Inner, <<"DBOSContextSwap">> \o Inner}
    IN
    \A t \in DOMAIN th :
        /\ Running(t) =>
            /\ th[t].scopes \in Acquired
            /\ check_required_roles(th[t].workflow_id) # None =>
                /\ th[t].assumed_role = check_required_roles(th[t].workflow_id)
                /\ workflow_status[th[t].workflow_id].assumed_role
                       = check_required_roles(th[t].workflow_id)
        /\ th[t].pc = "done" =>
               th[t].released \in {Reverse(q) : q \in Acquired}

\* the keys of the steps of the workflow (a body of steps and transactions
\* gives its i-th operation function id i)
StepKeys == {<<RootId, i>> : i \in {j \in DOMAIN body : body[j] = "step"}}

\* thread t runs the user function of its step once more
RunsStep(t) ==
    /\ th[t].pc = "step_attempt"
    /\ th'[t].workflow_id = th[t].workflow_id
    /\ th'[t].ran = th[t].ran + 1

\* C18 as stated: with any number of executors of one workflow id, the user
\* function of a step (called without retries) runs at most once for its
\* key, and it is never started once a result is recorded for the key.
C18_StepAtMostOnce ==
    [][/\ \A t \in DOMAIN th :
            RunsStep(t) => Key(t) \notin DOMAIN operation_outputs
       /\ ~retries_allowed =>
            \A k \in StepKeys \cap DOMAIN calls' : calls'[k] <= 1
      ]_vars

\* C18 amended: the user function of a step is only started by an execution
\* whose own check found no result for the key, so it runs at most once
\* (times the attempts allowed) for each execution launched; a recorded row
\* never changes, and an execution that ran the function but found the row
\* taken gets DBOSWorkflowConflictIDError and writes nothing.
C18_StepOncePerUnrecordedCheck ==
    [][/\ \A t \in DOMAIN th :
            /\ RunsStep(t) => th[t].recorded = <<>>
            /\ (th[t].pc = "step_record" /\ th'[t].pc = "ret"
                   /\ Key(t) \in DOMAIN operation_outputs) =>
                  /\ th'[t].ret = Err(DBOSWorkflowConflictIDError)
                  /\ ~th'[t].wrote
       /\ \A k \in DOMAIN operation_outputs :
            /\ k \in DOMAIN operation_outputs'
            /\ operation_outputs'[k] = operation_outputs[k]
       /\ \A k \in StepKeys \cap DOMAIN calls' :
            calls'[k] <= launches' * local_max_attempts
      ]_vars

\* two executions ran the same step; one recorded its result, the other was
\* refused
C18_Witness ==
    /\ ~retries_allowed
    /\ \E t1, t2 \in DOMAIN th :
        /\ InOp(t1, "step") /\ InOp(t2, "step") /\ Key(t1) = Key(t2)
        /\ th[t1].pc = "ret" /\ th[t1].ran = 1 /\ th[t1].wrote
        /\ th[t2].pc = "ret" /\ th[t2].ran = 1 /\ ~th[t2].wrote
        /\ th[t2].ret = Err(DBOSWorkflowConflictIDError)
        /\ calls[Key(t1)] = 2

\* C22: with retries_allowed a step sleeps only between two attempts, never
\* after the last one, so at most max_attempts - 1 times; its first sleep is
\* interval_seconds and each next one min(previous * backoff_rate, 3600);
\* without retries_allowed it never sleeps.
C22_StepRetrySleeps ==
    \A t \in DOMAIN th :
        (InOp(t, "step") /\ th[t].recorded = <<>>) =>
            LET s == th[t].sleeps IN
            /\ ~retries_allowed => s = <<>>
            /\ Len(s) <= IF max_attempts >= 1 THEN max_attempts - 1 ELSE 0
            /\ (retries_allowed /\ th[t].pc = "step_attempt") =>
                   Len(s) = th[t].ran
            /\ (retries_allowed /\ th[t].pc \in {"step_record", "ret"}
                   /\ th[t].ran >= 1) =>
                   Len(s) = th[t].ran - 1
            /\ Len(s) >= 1 => s[1] = interval_seconds
            /\ \A i \in 2..Len(s) :
                   s[i] = Min(s[i - 1] * backoff_rate, 3600)

\* interval 1, rate 2, three attempts that all raised: 1 s, then 2 s
C22_Witness ==
    /\ retries_allowed /\ max_attempts = 3
    /\ interval_seconds = 1 /\ backoff_rate = 2
    /\ \E t \in DOMAIN th :
        /\ InOp(t, "step") /\ th[t].pc = "ret"
        /\ th[t].ran = 3 /\ th[t].sleeps = <<1, 2>>
        /\ th[t].ret = Err(DBOSMaxStepRetriesExceeded)

\* min(1 ms * 1.5^(n-1), 2 s); 1.5^19 is above 2000
ExpectedWait(n) ==
    IF n > 20 THEN max_retry_wait
    ELSE Min(3 ^ (n - 1) * 2 ^ (20 - n), max_retry_wait)

\* thread t is in the retry loop of a transaction invocation
InTxLoop(t) ==
    InOp(t, "tx") /\ th[t].pc \in {"tx_begin", "tx_body", "tx_commit"}

\* the waits of the transaction invocations under way
TxWaits ==
    \A t \in DOMAIN th :
        InOp(t, "tx") =>
            /\ th[t].retry_wait_seconds <= max_retry_wait
            /\ th[t].serfail = 0 =>
                /\ th[t].slept = 0
                /\ th[t].retry_wait_seconds = initial_retry_wait
            /\ th[t].serfail > 0 =>
                /\ th[t].slept = ExpectedWait(th[t].serfail)
                /\ th[t].slept <= th[t].retry_wait_seconds

\* C23: within one transaction invocation the wait before the n-th retry
\* after a serialization failure is min(1 ms * 1.5^(n-1), 2 s), so the waits
\* never decrease and never exceed 2 s; every invocation starts again from
\* 1 ms; an outcome other than SQLSTATE 40001 leaves the loop without a sleep.
C23_TxRetryWaits ==
    [][/\ TxWaits'
       /\ \A t \in DOMAIN th :
            (InTxLoop(t) /\ th'[t] # th[t]
               /\ th'[t].raised # SerializationFailure) =>
                /\ th'[t].pc # "tx_begin"
                /\ th'[t].slept = th[t].slept
                /\ th'[t].retry_wait_seconds = th[t].retry_wait_seconds
      ]_vars

\* the second invocation has reached the cap after the first one had retried
C23_Witness ==
    \E t \in DOMAIN th :
        /\ InTxLoop(t) /\ th[t].idx = 1
        /\ th[t].serfail = 20
        /\ th[t].slept = max_retry_wait
        /\ calls[<<RootId, 1>>] >= 2

\* a pass of the loop of a transaction invocation ends in SQLSTATE 40001
SerFailStep ==
    \E t \in Threads :
        /\ InTxLoop(t)
        /\ th'[t].pc = "tx_begin"
        /\ th'[t].lap # th[t].lap

\* C24: a transaction invocation goes back to the top of its loop exactly
\* when a pass ends in SQLSTATE 40001, whatever the number of passes so far,
\* and leaves the loop on any other outcome; so it returns or raises if
\* serialization failures stop, and stays in the loop if they never stop.
C24_TxTermination ==
    /\ [][\A t \in Threads :
            (InTxLoop(t) /\ th'[t] # th[t]) =>
                /\ (th'[t].pc = "tx_begin")
                       <=> (th'[t].raised = SerializationFailure)
                /\ th'[t].pc = "tx_begin" =>
                       /\ th'[t].lap # th[t].lap
                       /\ th'[t].idx = th[t].idx
                       /\ th'[t].function_id = th[t].function_id
                /\ th'[t].pc \in {"tx_begin", "tx_body", "tx_commit",
                                  "tx_record_error", "ret"}
         ]_vars
    /\ (<>[][~SerFailStep]_vars) =>
           \A t \in Threads : [](InTxLoop(t) => <>(th[t].pc = "ret"))
    /\ ([]<><<SerFailStep>>_vars) =>
           <>[](\E t \in Threads : InTxLoop(t))

\* an invocation that returned after the failures counted had run out
C24_Witness ==
    \E t \in DOMAIN th :
        /\ InOp(t, "tx") /\ th[t].pc = "ret"
        /\ th[t].serfail = serfail_bound
        /\ serfail_forever

\* C25: when retries are not allowed, an invocation of a step that finds no
\* recorded result runs the user function exactly once, whatever
\* max_attempts is; an error of that attempt is recorded and raised as the
\* user function's own error, never as DBOSMaxStepRetriesExceeded, and an
\* invocation that finds the recorded error raises it again without running
\* the function.
C25_NoRetrySingleAttempt ==
    ~retries_allowed =>
        /\ \A k \in DOMAIN operation_outputs :
               operation_outputs[k].error # None =>
                   operation_outputs[k].error = serialize(UserError)
        /\ \A t \in DOMAIN th :
               InOp(t, "step") =>
                   /\ th[t].ran <= 1
                   /\ th[t].sleeps = <<>>
                   /\ (th[t].recorded = <<>>
                          /\ th[t].pc \in {"step_record", "ret"}) =>
                         /\ th[t].ran = 1
                         /\ th[t].error \in {None, UserError}
                   /\ (th[t].recorded = <<>> /\ th[t].pc = "ret"
                          /\ th[t].wrote) =>
                         /\ th[t].ret = StepOutcome(th[t])
                         /\ operation_outputs[Key(t)] = StepOutputRow(th[t])
                   /\ (th[t].recorded # <<>> /\ th[t].pc = "ret") =>
                         /\ th[t].ran = 0
                         /\ th[t].ret = StepReplay(th[t].recorded[1])
                         /\ th[t].recorded[1].error # None =>
                                th[t].ret = Err(UserError)

\* with max_attempts = 2 and no retries, an invocation re-raises the error
\* that the only run of the function raised
C25_Witness ==
    /\ ~retries_allowed /\ max_attempts = MaxAttempts
    /\ \E t \in DOMAIN th :
        /\ InOp(t, "step") /\ th[t].pc = "ret"
        /\ th[t].recorded # <<>> /\ th[t].ran = 0
        /\ th[t].ret = Err(UserError)
        /\ Key(t) \in DOMAIN calls /\ calls[Key(t)] = 1
        /\ operation_outputs[Key(t)].error = serialize(UserError)

\* C21: a step called while the context is inside a step runs the user
\* function once and returns or raises what that run returned or raised: the
\* context (workflow id, function_id) stays as it was, no operation result
\* is read or written and no workflow is started for the call, and neither
\* the number of attempts nor the error depends on the retry settings.
C21_NestedStepDirect ==
    /\ []((caller_ctx.kind = "step" /\ "step" \in DOMAIN api) =>
            /\ api["step"] \in {Ok(v) : v \in Vals} \cup {Err(UserError)}
            /\ NestedKey \in DOMAIN calls /\ calls[NestedKey] = 1
            /\ \A k \in DOMAIN operation_outputs :
                   k[1] # caller_ctx.workflow_id
            /\ \A t \in DOMAIN th :
                   th[t].workflow_id \notin {caller_ctx.workflow_id,
                                             TempStepId})
    /\ [][(caller_ctx.kind = "step" /\ "step" \notin DOMAIN api
             /\ "step" \in DOMAIN api') =>
              /\ caller_ctx' = caller_ctx
              /\ sysdb_calls' = sysdb_calls
              /\ operation_outputs' = operation_outputs
              /\ workflow_status' = workflow_status
              /\ status_buffer' = status_buffer
              /\ workflow_inputs' = workflow_inputs
              /\ th' = th
              /\ launches' = launches
              /\ calls' = Bump(calls, NestedKey)
          ]_vars

\* the nested call raised the function's error under settings that turn the
\* error of the same step, called by a workflow, into
\* DBOSMaxStepRetriesExceeded
C21_Witness ==
    /\ caller_ctx.kind = "step"
    /\ retries_allowed /\ max_attempts = 1
    /\ "step" \in DOMAIN api /\ api["step"] = Err(UserError)
    /\ <<RootId, 1>> \in DOMAIN operation_outputs
    /\ operation_outputs[<<RootId, 1>>].error
           = serialize(DBOSMaxStepRetriesExceeded)
====
